---- MODULE Spec2Model ----
(***************************************************************************)
(* Identity-locked tracking and anomaly-scoring pipeline                   *)
(* (cv_backend/core/anomaly_classifier.py, cv_backend/routers/             *)
(* pose_stream.py).                                                        *)
(*                                                                         *)
(* Numbers.  Feature values are fixed-point integers in thousandths        *)
(* (0.06 is 60, an angle of 0.2 rad is 200); a comparison x > y * 1.3 is   *)
(* 10 * x > 13 * y and a quotient comparison a / b >= c is cross-          *)
(* multiplied, so every comparison is decided exactly as over the          *)
(* rationals.  Beacon distances are in tenths of a metre, boxes in whole   *)
(* pixels, the calibration scale in tenths of a metre times pixels.        *)
(***************************************************************************)
EXTENDS Integers, Sequences, FiniteSets, TLC

VARIABLES
    window,         \* classifier input: a sequence of frames (feature rows)
    cls_result,     \* label returned by classify_anomaly, "" before the call
    \* ---- pose_stream.py: module globals shared between threads
    active,         \* _active (threading.Event)
    request_relock, \* _request_relock (threading.Event)
    focal_height,   \* _focal_height, tenths of a metre times pixels
    focal_initialized, \* _focal_initialized
    telemetry,      \* _state["telemetry"], the published snapshot
    \* ---- pose_stream.py: locals of _bg_loop
    pc,             \* "read": before cap.read(); "step": after line 248;
                    \* "dead": the thread ended by an exception;
                    \* "killed": the daemon thread ended with the process
    frame_count,    \* frame_count, folded modulo frame_step above 1
    detections,     \* detections of the current frame; <<>> between
                    \* iterations, where the list is not read any more
    target,         \* target: index of the target person in detections,
                    \* 0 for None
    is_active,      \* is_active, the value of _active read at line 248
    frame_step,     \* frame_step (FRAME_STEP or the model's pipeline config)
    target_bbox,    \* target_bbox, None when no target is held
    lost_count,     \* lost_count
    tracking_mode,  \* tracking_mode
    ble_devices,    \* ble_devices, the last beacon list fetched
    ble_dist,       \* ble_dist, the distance of the last match
    ble_fetched,    \* whether the last iteration called _get_ble_data
    prev_xy,        \* engineer._prev_xy is not None
    buffer,         \* buffer._buffer: per vector, whether its deltas are
                    \* zero (computed with no previous frame)
    since_last,     \* buffer._since_last
    is_anomaly,     \* is_anomaly
    anomaly_type,   \* anomaly_type
    label,          \* label, the status text
    calls,          \* what the last iteration's pipeline called: whether
                    \* buffer.add returned ready, the window handed to
                    \* predictor.predict (None when it was not called),
                    \* whether classify_anomaly was called
    \* ---- pose_activate
    act_pc,         \* "idle", or "relock" between lines 426 and 427
    \* ---- core/sequence_buffer.py: one SequenceBuffer driven on its own
    sb_window_size, \* self.window_size
    sb_stride,      \* self.stride
    sb_buffer,      \* self._buffer, oldest vector first
    sb_since_last,  \* self._since_last
    sb_ready,       \* what the last add returned (FALSE before any add)
    sb_added,       \* history: the vectors added since construction or
                    \* the last reset, in order
    sb_next,        \* history: number of vectors added so far; vector
                    \* number k is represented by k
    \* ---- core/feature_engineering.py: one FeatureEngineer on its own
    fe_prev_xy,     \* self._prev_xy
    fe_in,          \* arguments of the last compute (None before)
    fe_out,         \* vector returned by the last compute (None before)
    fe_calls,       \* history: computes since construction or the last
                    \* reset, counted up to 2
    \* ---- pose_stream.py: the shared holder, its publisher and its readers
    lock,           \* _lock: "free" or the thread holding it
    state,          \* _state: jpeg (the frame whose image it is, 0 for
                    \* b"") and telemetry (the identity of the dict, 0 for
                    \* the initial {})
    latest_anomaly, \* _latest_anomaly, one dict updated in place
    heap,           \* the telemetry dicts built so far, by identity
    pub,            \* the worker seen as publisher: position in
                    \* worker_program and the frame's locals
    rd,             \* per reader: position in reader_program and the
                    \* value bound by its copy (NoValue before)
    published,      \* history: the holder's content at the end of each
                    \* frame, the initial content first
    \* ---- pose_stream.py: _ensure_bg and the handlers calling it
    thread_started, \* _thread_started
    workers,        \* number of _bg_loop threads started so far
    running,        \* the handler the event loop is executing, or "none"
    ep              \* per endpoint: "idle", "ready" (request accepted),
                    \* "run" or "suspended" (at an await); position in
                    \* handler_program; the flag value its check read

cls_vars == <<window, cls_result>>

shared_vars == <<active, request_relock, focal_height, focal_initialized,
                 telemetry>>

lock_vars == <<target_bbox, lost_count, tracking_mode, ble_devices, ble_dist,
               ble_fetched>>

pipe_vars == <<prev_xy, buffer, since_last, is_anomaly, anomaly_type, label,
               calls>>

loop_vars == <<pc, frame_count, frame_step, detections, is_active, target>>

worker_vars == <<shared_vars, loop_vars, lock_vars, pipe_vars, act_pc>>

sb_vars == <<sb_window_size, sb_stride, sb_buffer, sb_since_last, sb_ready,
             sb_added, sb_next>>

fe_vars == <<fe_prev_xy, fe_in, fe_out, fe_calls>>

holder_vars == <<lock, state, latest_anomaly, heap, pub, rd, published>>

ensure_vars == <<thread_started, workers, running, ep>>

unit_vars == <<sb_vars, fe_vars, holder_vars, ensure_vars>>

\* everything but the holder
outside_vars == <<cls_vars, worker_vars, sb_vars, fe_vars, ensure_vars>>

\* everything but _ensure_bg and its callers
served_vars == <<cls_vars, worker_vars, sb_vars, fe_vars, holder_vars>>

vars == <<cls_vars, worker_vars, unit_vars>>

(***************************************************************************)
(* Arithmetic helpers                                                      *)
(***************************************************************************)
Abs(x) == IF x < 0 THEN -x ELSE x

Max2(a, b) == IF a >= b THEN a ELSE b

Min2(a, b) == IF a <= b THEN a ELSE b

RECURSIVE SumSeq(_)
SumSeq(s) == IF s = <<>> THEN 0 ELSE Head(s) + SumSeq(Tail(s))

RECURSIVE CountTrue(_)
CountTrue(s) == IF s = <<>> THEN 0
                ELSE (IF Head(s) THEN 1 ELSE 0) + CountTrue(Tail(s))

\* window[:, f] : one feature column of the window
Column(w, f) == [i \in 1..Len(w) |-> w[i][f]]

First(c) == c[1]

Last(c) == c[Len(c)]

\* np.std(c) > t   (population standard deviation, t in thousandths):
\* var = (n*Sum(x^2) - Sum(x)^2) / n^2 > t^2
StdGreater(c, t) ==
    LET n  == Len(c)
        s1 == SumSeq(c)
        s2 == SumSeq([i \in 1..n |-> c[i] * c[i]])
    IN  n * s2 - s1 * s1 > t * t * n * n

\* np.mean(c) > t   and   np.mean(c) < t
MeanGreater(c, t) == SumSeq(c) > t * Len(c)

MeanLess(c, t) == SumSeq(c) < t * Len(c)

\* np.max(np.abs(c)) > t
MaxAbsGreater(c, t) == \E i \in 1..Len(c) : Abs(c[i]) > t

\* _fraction_true(b) > 0.4
FractionTrueAbove40(b) == 10 * CountTrue(b) > 4 * Len(b)

(***************************************************************************)
(* anomaly_classifier.py                                                   *)
(***************************************************************************)
Labels == <<"FAINTING", "SWAYING", "CROUCHING", "HAND ON HEAD">>

\* _MIN_SCORE, in percent
MIN_SCORE_lowFaintBar(lbl) ==
    CASE lbl = "FAINTING"     -> 50
      [] lbl = "SWAYING"      -> 50
      [] lbl = "CROUCHING"    -> 50
      [] lbl = "HAND ON HEAD" -> 75

MIN_SCORE_hohAtHalf(lbl) ==
    CASE lbl = "FAINTING"     -> 35
      [] lbl = "SWAYING"      -> 50
      [] lbl = "CROUCHING"    -> 50
      [] lbl = "HAND ON HEAD" -> 50

MIN_SCORE(lbl) ==
    CASE lbl = "FAINTING"     -> 35
      [] lbl = "SWAYING"      -> 50
      [] lbl = "CROUCHING"    -> 50
      [] lbl = "HAND ON HEAD" -> 75

\* variant: FAINTING has the lowest priority
priority_faintingLowest(lbl) ==
    CASE lbl = "FAINTING"     -> 0
      [] lbl = "SWAYING"      -> 3
      [] lbl = "CROUCHING"    -> 2
      [] lbl = "HAND ON HEAD" -> 1

\* signatures[label]['priority']
priority(lbl) ==
    CASE lbl = "FAINTING"     -> 10
      [] lbl = "SWAYING"      -> 3
      [] lbl = "CROUCHING"    -> 2
      [] lbl = "HAND ON HEAD" -> 1

\* variant: knee_buckle asks for a larger drop of the knee angle than
\* knees_bent
faint_checks_strictKnee(w) ==
    LET nose_y       == Column(w, "nose_y")
        hip_y        == Column(w, "hip_y")
        knee_ang     == Column(w, "knee_ang")
        vert_ratio   == Column(w, "vert_ratio")
        delta_nose_y == Column(w, "delta_nose_y")
    IN  << Last(nose_y) - First(nose_y) > 60,
           MaxAbsGreater(delta_nose_y, 20),
           10 * Last(vert_ratio) > 13 * First(vert_ratio),
           Last(knee_ang) < First(knee_ang) - 600,
           Last(hip_y) - First(hip_y) > 50 >>

faint_checks(w) ==
    LET nose_y       == Column(w, "nose_y")
        hip_y        == Column(w, "hip_y")
        knee_ang     == Column(w, "knee_ang")
        vert_ratio   == Column(w, "vert_ratio")
        delta_nose_y == Column(w, "delta_nose_y")
    IN  << Last(nose_y) - First(nose_y) > 60,              \* nose_drop
           MaxAbsGreater(delta_nose_y, 20),                \* fast_drop
           10 * Last(vert_ratio) > 13 * First(vert_ratio), \* went_horizontal
           Last(knee_ang) < First(knee_ang) - 200,         \* knee_buckle
           Last(hip_y) - First(hip_y) > 50 >>              \* hip_drop

sway_checks(w) ==
    LET nose_y   == Column(w, "nose_y")
        hip_y    == Column(w, "hip_y")
        sh_angle == Column(w, "sh_angle")
    IN  << StdGreater(nose_y, 15),                         \* nose_oscillation
           StdGreater(hip_y, 10),                          \* hip_oscillation
           Abs(Last(nose_y) - First(nose_y)) < 80,         \* still_upright
           StdGreater(sh_angle, 50) >>                     \* shoulder_wobble

crouch_checks(w) ==
    LET hip_y      == Column(w, "hip_y")
        torso_len  == Column(w, "torso_len")
        knee_ang   == Column(w, "knee_ang")
        vert_ratio == Column(w, "vert_ratio")
    IN  << Last(knee_ang) < First(knee_ang) - 200,         \* knees_bent
           Last(hip_y) - First(hip_y) > 50,                \* hip_lowered
           10 * Last(torso_len) < 8 * First(torso_len),    \* torso_compressed
           Last(vert_ratio) < 1000 >>                      \* still_vertical

hoh_checks(w) ==
    LET n  == Len(w)
        l_on_head == [i \in 1..n |->
                        /\ w[i].l_wrist_y < w[i].nose_y - 30
                        /\ Abs(w[i].l_wrist_x - w[i].nose_x) < 120]
        r_on_head == [i \in 1..n |->
                        /\ w[i].r_wrist_y < w[i].nose_y - 30
                        /\ Abs(w[i].r_wrist_x - w[i].nose_x) < 120]
        hand_sustained == \/ FractionTrueAbove40(l_on_head)
                          \/ FractionTrueAbove40(r_on_head)
    IN  << hand_sustained,                                 \* wrist_on_head
           MeanGreater(Column(w, "sh_angle"), 300),        \* shoulder_raised
           Abs(Last(Column(w, "nose_y")) - First(Column(w, "nose_y"))) < 40,
                                                           \* no_drop
           MeanLess(Column(w, "vert_ratio"), 600) >>       \* still_upright

\* signatures[label]['checks']
checks(lbl, w) ==
    CASE lbl = "FAINTING"     -> faint_checks(w)
      [] lbl = "SWAYING"      -> sway_checks(w)
      [] lbl = "CROUCHING"    -> crouch_checks(w)
      [] lbl = "HAND ON HEAD" -> hoh_checks(w)

\* score = sum(checks) / len(checks), kept as the pair <<true checks, checks>>
score(lbl, w) == LET c == checks(lbl, w) IN <<CountTrue(c), Len(c)>>

\* score >= _MIN_SCORE[label]
qualifies(lbl, w) ==
    LET s == score(lbl, w) IN 100 * s[1] >= MIN_SCORE(lbl) * s[2]

\* the keys of `matches`, in insertion order
matches(w) == SelectSeq(Labels, LAMBDA l : qualifies(l, w))

\* (priority, score) of key a is lexicographically greater than that of b
KeyGreater(a, b, w) ==
    \/ priority(a) > priority(b)
    \/ /\ priority(a) = priority(b)
       /\ LET sa == score(a, w)
              sb == score(b, w)
          IN  sa[1] * sb[2] > sb[1] * sa[2]

\* max(matches, key=...): the first key no other key is greater than
RECURSIVE MaxKey(_, _, _)
MaxKey(best, rest, w) ==
    IF rest = <<>> THEN best
    ELSE MaxKey(IF KeyGreater(Head(rest), best, w) THEN Head(rest) ELSE best,
                Tail(rest), w)

classify_noOverride(w) ==
    LET m == matches(w)
        other == SelectSeq(m, LAMBDA l : l # "FAINTING")
    IN  IF m = <<>> THEN "UNKNOWN"
        ELSE IF other = <<>> THEN "FAINTING"
        ELSE MaxKey(Head(other), Tail(other), w)

classify_scoreFirst(w) ==
    LET m == matches(w)
        better(a, b) == \/ score(a, w)[1] * score(b, w)[2]
                             > score(b, w)[1] * score(a, w)[2]
                        \/ /\ score(a, w)[1] * score(b, w)[2]
                                = score(b, w)[1] * score(a, w)[2]
                           /\ priority(a) > priority(b)
    IN  IF m = <<>> THEN "UNKNOWN"
        ELSE IF \E i \in 1..Len(m) : m[i] = "FAINTING" THEN "FAINTING"
        ELSE CHOOSE l \in {m[i] : i \in 1..Len(m)} :
                 \A i \in 1..Len(m) : m[i] = l \/ better(l, m[i])

classify_dropsLowest(w) ==
    LET m == matches(w)
    IN  IF m = <<>> \/ m = <<"HAND ON HEAD">> THEN "UNKNOWN"
        ELSE IF \E i \in 1..Len(m) : m[i] = "FAINTING" THEN "FAINTING"
        ELSE MaxKey(Head(m), Tail(m), w)

classify_anomaly(w) ==
    LET m == matches(w)
    IN  IF m = <<>> THEN "UNKNOWN"
        ELSE IF \E i \in 1..Len(m) : m[i] = "FAINTING" THEN "FAINTING"
        ELSE MaxKey(Head(m), Tail(m), w)

(***************************************************************************)
(* Classifier inputs: windows of NumFrames frames, each column drawn from  *)
(* a small family of profiles.                                             *)
(***************************************************************************)
NumFrames == 9

Const(a) == [i \in 1..NumFrames |-> a]

Ramp(a, d) == [i \in 1..NumFrames |-> a + d * (i - 1)]

ZigZag(a, amp) == [i \in 1..NumFrames |-> IF i % 2 = 1 THEN a ELSE a + amp]

Step(a, b) == [i \in 1..NumFrames |-> IF i = NumFrames THEN b ELSE a]

Spike(a, k) == [i \in 1..NumFrames |-> IF i = 2 THEN k ELSE a]

NoseYProfiles == {Ramp(400, d) : d \in {1, 6, 8, 12, -8}}
                     \cup {ZigZag(400, 40)}

HipYProfiles == {Ramp(600, d) : d \in {1, 7}} \cup {ZigZag(600, 30)}

TorsoProfiles == {Const(300), Step(300, 200)}

ShoulderProfiles == {Const(100), Const(400), ZigZag(350, 200), ZigZag(100, 150)}

KneeProfiles == {Const(3000), Step(3000, 2500)}

VertRatioProfiles == {Const(400), Step(400, 600), Step(800, 1200), Const(0)}

DeltaNoseProfiles == {Const(0), Spike(0, -30)}

\* number of leading frames in which a wrist is on the head; -1: the wrist
\* is above the nose in every frame but far from the head in x
WristProfiles == {3, 4, -1}

\* nose_x of every frame (the wrists are placed relative to it)
NoseX == 400 + 100

WristX(k, i) == IF k = -1 THEN NoseX + 300 ELSE NoseX + 50

WristY(k, i, ny) == IF k = -1 \/ i <= k THEN ny - 50 ELSE ny + 200

MkWindow(ny, hy, tl, sa, ka, vr, dn, lw, rw) ==
    [i \in 1..NumFrames |->
        [nose_x       |-> NoseX,
         l_wrist_x    |-> WristX(lw, i),
         l_wrist_y    |-> WristY(lw, i, ny[i]),
         r_wrist_x    |-> WristX(rw, i),
         r_wrist_y    |-> WristY(rw, i, ny[i]),
         delta_nose_y |-> dn[i],
         nose_y       |-> ny[i],
         hip_y        |-> hy[i],
         torso_len    |-> tl[i],
         sh_angle     |-> sa[i],
         knee_ang     |-> ka[i],
         vert_ratio   |-> vr[i]]]

Windows ==
    {MkWindow(ny, hy, tl, sa, ka, vr, dn, lw, rw) :
        ny \in NoseYProfiles, hy \in HipYProfiles, tl \in TorsoProfiles,
        sa \in ShoulderProfiles, ka \in KneeProfiles, vr \in VertRatioProfiles,
        dn \in DeltaNoseProfiles, lw \in WristProfiles, rw \in {0, 4}}

ClsInit ==
    /\ window \in Windows
    /\ cls_result = ""

\* one call classify_anomaly(window)
Classify ==
    /\ cls_result = ""
    /\ cls_result' = classify_anomaly(window)
    /\ UNCHANGED <<window, worker_vars, unit_vars>>

ClsNext == Classify


(***************************************************************************)
(* pose_stream.py: distance estimator and lock-on matching                 *)
(***************************************************************************)
\* Python None (target_bbox, matched)
None == <<>>

\* ble_dist is None
NoDist == -1

IOU_THRESHOLD_TENTHS == 3

LOST_FRAMES_BEFORE_RELOCK == 15

\* float(ble_devices[0].get("distance", 999)), in tenths of a metre
DEFAULT_DISTANCE == 9990

\* bbox_h = max(y2 - y1, 1)
bbox_h(b) == Max2(b[4] - b[2], 1)

\* _init_focal_from_frame: frame_h / (2 * tan(CAMERA_VFOV / 2)) *
\* AVG_PERSON_HEIGHT with CAMERA_VFOV = 124 degrees and AVG_PERSON_HEIGHT =
\* 1.55 m is frame_h * 0.412075 m px, i.e. frame_h * 4.12075 tenths of a metre
init_focal_from_frame(frame_h) == (frame_h * 412075) \div 100000

refine_focal_blend(ble_d, h) == (focal_height + ble_d * h) \div 2

\* _refine_focal: new_focal = ble_dist * bbox_h
refine_focal(ble_d, h) == ble_d * h

\* ble_devices[0].get("distance", 999)
ble_distance(ble) ==
    IF "distance" \in DOMAIN ble[1] THEN ble[1].distance ELSE DEFAULT_DISTANCE

\* diff = abs(_focal_height / bbox_h - ble_dist) of box a is less than that
\* of box b (both bbox_h are positive, so the quotients are cross-multiplied)
DiffLess(a, b, focal, ble_d) ==
    Abs(focal - ble_d * bbox_h(a)) * bbox_h(b)
        < Abs(focal - ble_d * bbox_h(b)) * bbox_h(a)

BestMatch_lastOnTie(dets, i, best, focal, ble_d) ==
    IF dets = <<>> THEN 0
    ELSE CHOOSE k \in 1..Len(dets) :
            /\ \A j \in 1..Len(dets) :
                  ~DiffLess(dets[j].bbox, dets[k].bbox, focal, ble_d)
            /\ \A j \in (k + 1)..Len(dets) :
                  DiffLess(dets[k].bbox, dets[j].bbox, focal, ble_d)

\* the loop of _match_target (lines 132-142) from detection i on; best is
\* the index of the best detection so far, 0 while best is None and
\* best_diff is infinite
RECURSIVE BestMatch(_, _, _, _, _)
BestMatch(dets, i, best, focal, ble_d) ==
    IF i > Len(dets) THEN best
    ELSE BestMatch(dets, i + 1,
                   IF best = 0 \/ DiffLess(dets[i].bbox, dets[best].bbox,
                                           focal, ble_d)
                   THEN i ELSE best,
                   focal, ble_d)

match_target_guess(dets, ble, focal) ==
    IF dets = <<>>
    THEN [best |-> 0, ble_dist |-> NoDist, focal |-> focal]
    ELSE [best |-> 1, ble_dist |-> DEFAULT_DISTANCE, focal |-> focal]

\* _match_target: the index of the matched detection (0: None), the beacon
\* distance returned, and _focal_height after the call
match_target(dets, ble, focal) ==
    IF dets = <<>> \/ ble = <<>>
    THEN [best |-> 0, ble_dist |-> NoDist, focal |-> focal]
    ELSE LET ble_d == ble_distance(ble)
             best  == BestMatch(dets, 1, 0, focal, ble_d)
         IN  [best     |-> best,
              ble_dist |-> ble_d,
              focal    |-> IF best # 0
                           THEN refine_focal(ble_d, bbox_h(dets[best].bbox))
                           ELSE focal]

(***************************************************************************)
(* pose_stream.py: IoU tracking                                            *)
(***************************************************************************)
\* _iou, as the fraction <<inter, union>> (<<0, 1>> for the value 0.0)
iou(box_a, box_b) ==
    LET xa == Max2(box_a[1], box_b[1])
        ya == Max2(box_a[2], box_b[2])
        xb == Min2(box_a[3], box_b[3])
        yb == Min2(box_a[4], box_b[4])
        inter  == Max2(0, xb - xa) * Max2(0, yb - ya)
        area_a == (box_a[3] - box_a[1]) * (box_a[4] - box_a[2])
        area_b == (box_b[3] - box_b[1]) * (box_b[4] - box_b[2])
        union  == area_a + area_b - inter
    IN  IF union > 0 THEN <<inter, union>> ELSE <<0, 1>>

\* p > q for fractions with positive denominators
FracGreater(p, q) == p[1] * q[2] > q[1] * p[2]

iou_accept_strict(f) == 10 * f[1] > IOU_THRESHOLD_TENTHS * f[2]

iou_accept_any(f) == f[1] >= 0

\* best_iou >= IOU_THRESHOLD
iou_accept(f) == 10 * f[1] >= IOU_THRESHOLD_TENTHS * f[2]

\* the loop of lines 286-292 from detection i on: <<best_det, best_iou>>,
\* best_det the index of the detection (0: None)
RECURSIVE BestIou(_, _, _, _)
BestIou(tb, dets, i, best) ==
    IF i > Len(dets) THEN best
    ELSE LET overlap == iou(tb, dets[i].bbox)
         IN  BestIou(tb, dets, i + 1,
                     IF FracGreater(overlap, best[2])
                     THEN <<i, overlap>> ELSE best)

(***************************************************************************)
(* core/sequence_buffer.py                                                 *)
(***************************************************************************)
\* variant: a full deque discards the new element instead of the oldest
deque_append_dropNewest(buf, x, maxlen) ==
    IF Len(buf) < maxlen THEN Append(buf, x) ELSE buf

\* deque(maxlen=maxlen).append, maxlen >= 1
deque_append(buf, x, maxlen) ==
    IF Len(buf) < maxlen THEN Append(buf, x) ELSE Append(Tail(buf), x)

\* variant: a full buffer is ready on every addition
SequenceBuffer_add_noStride(buf, since, x, window_size, stride) ==
    LET b == deque_append(buf, x, window_size)
        ready == Len(b) = window_size
    IN  [buffer |-> b,
         since_last |-> IF ready THEN 0 ELSE since + 1,
         ready |-> ready]

\* variant: additions are counted only once the buffer is full
SequenceBuffer_add_countsFromFull(buf, since, x, window_size, stride) ==
    LET b == deque_append(buf, x, window_size)
        n == IF Len(buf) = window_size THEN since + 1 ELSE since
        ready == Len(b) = window_size /\ n >= stride
    IN  [buffer |-> b,
         since_last |-> IF ready THEN 0 ELSE n,
         ready |-> ready]

\* SequenceBuffer.add: the buffer, _since_last and the value returned
SequenceBuffer_add(buf, since, x, window_size, stride) ==
    LET b == deque_append(buf, x, window_size)
        ready == Len(b) = window_size /\ since + 1 >= stride
    IN  [buffer |-> b,
         since_last |-> IF ready THEN 0 ELSE since + 1,
         ready |-> ready]

\* SequenceBuffer.get_window: the rows of the array, list(self._buffer)
get_window(buf) == [i \in 1..Len(buf) |-> buf[i]]

\* variant: reset empties the deque and keeps the stride counter
SequenceBuffer_reset_keepsCounter(buf, since) ==
    [buffer |-> <<>>, since_last |-> since]

\* SequenceBuffer.reset
SequenceBuffer_reset(buf, since) == [buffer |-> <<>>, since_last |-> 0]

\* the buffer of _bg_loop: SequenceBuffer(window_size, num_features), the
\* stride left at its default
WindowSize == 2

Stride == 1

buffer_add(buf, since, x) ==
    SequenceBuffer_add(buf, since, x, WindowSize, Stride)

\* ---- a SequenceBuffer driven by add and reset calls
MaxWindowSize == 3

MaxStride == 3

MaxAdds == 7

SbInit ==
    /\ sb_window_size \in 1..MaxWindowSize
    /\ sb_stride \in 1..MaxStride
    /\ sb_buffer = <<>>
    /\ sb_since_last = 0
    /\ sb_ready = FALSE
    /\ sb_added = <<>>
    /\ sb_next = 0

\* the buffer object is not in use
SbIdle ==
    /\ sb_window_size = 1
    /\ sb_stride = 1
    /\ sb_buffer = <<>>
    /\ sb_since_last = 0
    /\ sb_ready = FALSE
    /\ sb_added = <<>>
    /\ sb_next = 0

\* buffer.add(vector number sb_next + 1)
SbAdd ==
    /\ sb_next < MaxAdds
    /\ \E a \in {SequenceBuffer_add(sb_buffer, sb_since_last, sb_next + 1,
                                    sb_window_size, sb_stride)} :
          /\ sb_buffer' = a.buffer
          /\ sb_since_last' = a.since_last
          /\ sb_ready' = a.ready
    /\ sb_added' = Append(sb_added, sb_next + 1)
    /\ sb_next' = sb_next + 1
    /\ UNCHANGED <<sb_window_size, sb_stride, fe_vars, cls_vars, worker_vars,
                   holder_vars, ensure_vars>>

\* buffer.reset()
SbReset ==
    /\ \E r \in {SequenceBuffer_reset(sb_buffer, sb_since_last)} :
          /\ sb_buffer' = r.buffer
          /\ sb_since_last' = r.since_last
    /\ sb_ready' = FALSE
    /\ sb_added' = <<>>
    /\ UNCHANGED <<sb_window_size, sb_stride, sb_next, fe_vars, cls_vars,
                   worker_vars, holder_vars,
                   ensure_vars>>

SbNext == SbAdd \/ SbReset

(***************************************************************************)
(* core/feature_engineering.py: FeatureEngineer                            *)
(*                                                                         *)
(* Keypoints are pixel pairs per joint (the confidence column is dropped   *)
(* by kps[:, :2]); normalised coordinates are in thousandths of the frame  *)
(* size.  Three of the 17 joints are carried, those the engineered         *)
(* features nose_y and hip_y read; the other engineered features are       *)
(* functions of the same normalised coordinates.                           *)
(***************************************************************************)
Joints == {"nose", "l_hip", "r_hip"}

\* lines 42-44: xy[:, 0] /= frame_w, xy[:, 1] /= frame_h
normalize(kps, frame_w, frame_h) ==
    [j \in Joints |-> <<(kps[j][1] * 1000) \div frame_w,
                        (kps[j][2] * 1000) \div frame_h>>]

\* lines 56-88, the features that depend on the carried joints
engineered(xy) ==
    [nose_y |-> xy["nose"][2],
     hip_y  |-> (xy["l_hip"][2] + xy["r_hip"][2]) \div 2]

\* variant: without a previous frame the deltas are taken against zero
compute_firstDeltaIsRaw(prev, kps, frame_w, frame_h) ==
    LET xy == normalize(kps, frame_w, frame_h)
        delta_xy == IF prev # None
                    THEN [j \in Joints |-> <<xy[j][1] - prev[j][1],
                                             xy[j][2] - prev[j][2]>>]
                    ELSE xy
    IN  [vector |-> [raw_xy |-> xy, delta_xy |-> delta_xy,
                     engineered |-> engineered(xy)],
         prev_xy |-> xy]

\* FeatureEngineer.compute: the vector returned and the new self._prev_xy
compute(prev, kps, frame_w, frame_h) ==
    LET xy == normalize(kps, frame_w, frame_h)
        delta_xy == IF prev # None
                    THEN [j \in Joints |-> <<xy[j][1] - prev[j][1],
                                             xy[j][2] - prev[j][2]>>]
                    ELSE [j \in Joints |-> <<0, 0>>]
    IN  [vector |-> [raw_xy |-> xy, delta_xy |-> delta_xy,
                     engineered |-> engineered(xy)],
         prev_xy |-> xy]

\* ---- a FeatureEngineer driven by compute and reset calls
PixelPoints == {<<80, 60>>, <<240, 180>>, <<80, 180>>}

FrameSizes == {<<640, 480>>, <<320, 240>>}

FeInputs == [kps : [Joints -> PixelPoints], size : FrameSizes]

\* the state after FeatureEngineer()
FeInit ==
    /\ fe_prev_xy = None
    /\ fe_in = None
    /\ fe_out = None
    /\ fe_calls = 0

\* engineer.compute(kps, frame_w, frame_h)
FeCompute ==
    /\ \E in \in FeInputs :
       \E c \in {compute(fe_prev_xy, in.kps, in.size[1], in.size[2])} :
          /\ fe_in' = in
          /\ fe_out' = c.vector
          /\ fe_prev_xy' = c.prev_xy
    /\ fe_calls' = Min2(fe_calls + 1, 2)
    /\ UNCHANGED <<sb_vars, cls_vars, worker_vars, holder_vars,
                   ensure_vars>>

\* engineer.reset()
FeReset ==
    /\ fe_prev_xy' = None
    /\ fe_calls' = 0
    /\ UNCHANGED <<fe_in, fe_out, sb_vars, cls_vars, worker_vars,
                   holder_vars, ensure_vars>>

FeNext == FeCompute \/ FeReset

(***************************************************************************)
(* pose_stream.py: the background worker _bg_loop                          *)
(***************************************************************************)
StatusInactive == "Inactive -- press Activate"

StatusWaiting == "Waiting for buffer..."

StatusNoPerson == "No person detected"

StatusLost == "Target lost -- re-locking..."

StatusAnomaly == "ANOMALY DETECTED"

StatusNormal == "Normal"

\* frame_count += 1, folded so that frame_count = 1 only on the first frame
\* and frame_count % frame_step is kept
next_frame_count(n, step) == IF n + 1 > step + 1 THEN n + 1 - step ELSE n + 1

\* what the lock controller (lines 261-304) yields in one iteration:
\* target is the index of the target detection in detections (0: None),
\* reset tells that engineer.reset() and buffer.reset() were called
\* variant: an INACTIVE iteration counts its frame as a miss
lock_inactive_countsMiss(tb) ==
    [mode |-> "INACTIVE", target |-> 0, target_bbox |-> None,
     lost_count |-> Min2(lost_count + 1, LOST_FRAMES_BEFORE_RELOCK + 1),
     focal |-> focal_height,
     ble_devices |-> ble_devices, ble_dist |-> ble_dist, reset |-> FALSE,
     fetched |-> FALSE]

\* variant: deactivation keeps the target box
lock_inactive_keepTarget(tb) ==
    [mode |-> "INACTIVE", target |-> 0, target_bbox |-> tb,
     lost_count |-> lost_count, focal |-> focal_height,
     ble_devices |-> ble_devices, ble_dist |-> ble_dist, reset |-> FALSE,
     fetched |-> FALSE]

lock_inactive(tb) ==
    [mode |-> "INACTIVE", target |-> 0, target_bbox |-> None,
     lost_count |-> lost_count, focal |-> focal_height,
     ble_devices |-> ble_devices, ble_dist |-> ble_dist, reset |-> FALSE,
     fetched |-> FALSE]

\* variant: a match does not refine the calibration scale
lock_on_keepsScale(dets, ble) ==
    LET m == match_target(dets, ble, focal_height)
    IN  IF m.best # 0
        THEN [mode |-> "TRACKING", target |-> m.best,
              target_bbox |-> dets[m.best].bbox, lost_count |-> 0,
              focal |-> focal_height, ble_devices |-> ble,
              ble_dist |-> m.ble_dist, reset |-> FALSE, fetched |-> TRUE]
        ELSE [mode |-> "LOCK-ON", target |-> 0, target_bbox |-> None,
              lost_count |-> lost_count, focal |-> focal_height,
              ble_devices |-> ble, ble_dist |-> ble_dist, reset |-> FALSE,
              fetched |-> TRUE]

lock_on(dets, ble) ==
    LET m == match_target(dets, ble, focal_height)
    IN  IF m.best # 0
        THEN [mode |-> "TRACKING", target |-> m.best,
              target_bbox |-> dets[m.best].bbox, lost_count |-> 0,
              focal |-> m.focal, ble_devices |-> ble, ble_dist |-> m.ble_dist,
              reset |-> FALSE, fetched |-> TRUE]
        ELSE [mode |-> "LOCK-ON", target |-> 0, target_bbox |-> None,
              lost_count |-> lost_count, focal |-> m.focal,
              ble_devices |-> ble, ble_dist |-> ble_dist, reset |-> FALSE,
              fetched |-> TRUE]

\* variant: an accepted detection does not reset the loss counter
lock_track_noReset(tb, dets) ==
    LET b == BestIou(tb, dets, 1, <<0, <<0, 1>>>>)
    IN  IF b[1] # 0 /\ iou_accept(b[2])
        THEN [mode |-> "TRACKING", target |-> b[1],
              target_bbox |-> dets[b[1]].bbox, lost_count |-> lost_count,
              focal |-> focal_height, ble_devices |-> ble_devices,
              ble_dist |-> ble_dist, reset |-> FALSE, fetched |-> FALSE]
        ELSE LET relock == lost_count + 1 > LOST_FRAMES_BEFORE_RELOCK
             IN  [mode |-> "TRACKING", target |-> 0,
                  target_bbox |-> IF relock THEN None ELSE tb,
                  lost_count |-> lost_count + 1,
                  focal |-> focal_height, ble_devices |-> ble_devices,
                  ble_dist |-> ble_dist, reset |-> relock, fetched |-> FALSE]

\* variant: the target is dropped one miss later
lock_track_dropsLate(tb, dets) ==
    LET b == BestIou(tb, dets, 1, <<0, <<0, 1>>>>)
    IN  IF b[1] # 0 /\ iou_accept(b[2])
        THEN [mode |-> "TRACKING", target |-> b[1],
              target_bbox |-> dets[b[1]].bbox, lost_count |-> 0,
              focal |-> focal_height, ble_devices |-> ble_devices,
              ble_dist |-> ble_dist, reset |-> FALSE, fetched |-> FALSE]
        ELSE LET relock == lost_count + 1 > LOST_FRAMES_BEFORE_RELOCK + 1
             IN  [mode |-> "TRACKING", target |-> 0,
                  target_bbox |-> IF relock THEN None ELSE tb,
                  lost_count |-> lost_count + 1,
                  focal |-> focal_height, ble_devices |-> ble_devices,
                  ble_dist |-> ble_dist, reset |-> relock, fetched |-> FALSE]

\* variant: a miss in TRACKING asks the beacon again
lock_track_refetches(tb, dets) ==
    LET b == BestIou(tb, dets, 1, <<0, <<0, 1>>>>)
    IN  IF b[1] # 0 /\ iou_accept(b[2])
        THEN [mode |-> "TRACKING", target |-> b[1],
              target_bbox |-> dets[b[1]].bbox, lost_count |-> 0,
              focal |-> focal_height, ble_devices |-> ble_devices,
              ble_dist |-> ble_dist, reset |-> FALSE, fetched |-> FALSE]
        ELSE LET relock == lost_count + 1 > LOST_FRAMES_BEFORE_RELOCK
             IN  [mode |-> "TRACKING", target |-> 0,
                  target_bbox |-> IF relock THEN None ELSE tb,
                  lost_count |-> lost_count + 1,
                  focal |-> focal_height, ble_devices |-> ble_devices,
                  ble_dist |-> ble_dist, reset |-> relock, fetched |-> TRUE]

\* variant: the target is dropped when the counter reaches the limit
lock_track_relockAtLimit(tb, dets) ==
    LET b == BestIou(tb, dets, 1, <<0, <<0, 1>>>>)
    IN  IF b[1] # 0 /\ iou_accept(b[2])
        THEN [mode |-> "TRACKING", target |-> b[1],
              target_bbox |-> dets[b[1]].bbox, lost_count |-> 0,
              focal |-> focal_height, ble_devices |-> ble_devices,
              ble_dist |-> ble_dist, reset |-> FALSE, fetched |-> FALSE]
        ELSE LET relock == lost_count + 1 >= LOST_FRAMES_BEFORE_RELOCK
             IN  [mode |-> "TRACKING", target |-> 0,
                  target_bbox |-> IF relock THEN None ELSE tb,
                  lost_count |-> lost_count + 1,
                  focal |-> focal_height, ble_devices |-> ble_devices,
                  ble_dist |-> ble_dist, reset |-> relock, fetched |-> FALSE]

lock_track(tb, dets) ==
    LET b == BestIou(tb, dets, 1, <<0, <<0, 1>>>>)
    IN  IF b[1] # 0 /\ iou_accept(b[2])
        THEN [mode |-> "TRACKING", target |-> b[1],
              target_bbox |-> dets[b[1]].bbox, lost_count |-> 0,
              focal |-> focal_height, ble_devices |-> ble_devices,
              ble_dist |-> ble_dist, reset |-> FALSE, fetched |-> FALSE]
        ELSE LET relock == lost_count + 1 > LOST_FRAMES_BEFORE_RELOCK
             IN  [mode |-> "TRACKING", target |-> 0,
                  target_bbox |-> IF relock THEN None ELSE tb,
                  lost_count |-> lost_count + 1,
                  focal |-> focal_height, ble_devices |-> ble_devices,
                  ble_dist |-> ble_dist, reset |-> relock, fetched |-> FALSE]

\* variant: the relock request does not clear the old target box
lock_controller_keepTracking(tb, dets, ble) ==
    IF ~is_active THEN lock_inactive(tb)
    ELSE IF target_bbox = None THEN lock_on(dets, ble)
    ELSE lock_track(target_bbox, dets)

\* variant: without a beacon reading the controller reports INACTIVE
lock_controller_inactiveWithoutBeacon(tb, dets, ble) ==
    IF ~is_active \/ (tb = None /\ ble = <<>>) THEN lock_inactive(tb)
    ELSE IF tb = None THEN lock_on(dets, ble)
    ELSE lock_track(tb, dets)

\* variant: the controller runs whatever the activate flag says
lock_controller_ignoresFlag(tb, dets, ble) ==
    IF tb = None THEN lock_on(dets, ble)
    ELSE lock_track(tb, dets)

\* lines 261-304, tb being target_bbox after the relock handling
lock_controller(tb, dets, ble) ==
    IF ~is_active THEN lock_inactive(tb)
    ELSE IF tb = None THEN lock_on(dets, ble)
    ELSE lock_track(tb, dets)

\* lines 316-372: the feature pipeline, from the state after the relock
\* handling and the lock controller; anomalous is predictor.predict's
\* is_anomaly and kind classify_anomaly's label for the window
\* an iteration that reaches neither buffer.add nor the scorer
NoCalls == [ready |-> FALSE, window |-> None, classified |-> FALSE]

\* variant: the scorer is called after every add, on whatever the buffer
\* holds
pipeline_scoresEveryAdd(tgt, dets, p, anomalous, kind) ==
    IF tgt # 0 /\ frame_count % frame_step = 0
    THEN LET a == buffer_add(p.buffer, p.since_last, ~p.prev_xy)
         IN  [prev_xy |-> TRUE, buffer |-> a.buffer,
              since_last |-> a.since_last,
              is_anomaly |-> anomalous,
              anomaly_type |-> IF anomalous THEN kind ELSE "",
              label |-> IF anomalous THEN StatusAnomaly ELSE StatusNormal,
              scored |-> TRUE,
              calls |-> [ready |-> a.ready, window |-> get_window(a.buffer),
                         classified |-> anomalous]]
    ELSE [prev_xy |-> p.prev_xy, buffer |-> p.buffer,
          since_last |-> p.since_last, is_anomaly |-> p.is_anomaly,
          anomaly_type |-> p.anomaly_type,
          label |-> IF tgt # 0 THEN p.label
                    ELSE IF dets = <<>> THEN StatusNoPerson ELSE StatusLost,
          scored |-> FALSE, calls |-> NoCalls]

\* variant: a window scored as normal leaves the anomaly type as it was
pipeline_keepsTypeOnNormal(tgt, dets, p, anomalous, kind) ==
    IF tgt # 0 /\ frame_count % frame_step = 0
    THEN LET a == buffer_add(p.buffer, p.since_last, ~p.prev_xy)
         IN  [prev_xy |-> TRUE, buffer |-> a.buffer,
              since_last |-> a.since_last,
              is_anomaly |-> IF a.ready THEN anomalous ELSE p.is_anomaly,
              anomaly_type |-> IF a.ready /\ anomalous THEN kind
                               ELSE p.anomaly_type,
              label |-> IF a.ready
                        THEN (IF anomalous THEN StatusAnomaly
                              ELSE StatusNormal)
                        ELSE p.label,
              scored |-> a.ready,
              calls |-> [ready |-> a.ready,
                         window |-> IF a.ready THEN get_window(a.buffer)
                                    ELSE None,
                         classified |-> a.ready /\ anomalous]]
    ELSE [prev_xy |-> p.prev_xy, buffer |-> p.buffer,
          since_last |-> p.since_last, is_anomaly |-> p.is_anomaly,
          anomaly_type |-> p.anomaly_type,
          label |-> IF tgt # 0 THEN p.label
                    ELSE IF dets = <<>> THEN StatusNoPerson ELSE StatusLost,
          scored |-> FALSE, calls |-> NoCalls]

pipeline(tgt, dets, p, anomalous, kind) ==
    IF tgt # 0
    THEN IF frame_count % frame_step = 0
         THEN LET a == buffer_add(p.buffer, p.since_last, ~p.prev_xy)
              IN  [prev_xy |-> TRUE, buffer |-> a.buffer,
                   since_last |-> a.since_last,
                   is_anomaly |-> IF a.ready THEN anomalous ELSE p.is_anomaly,
                   anomaly_type |-> IF a.ready
                                    THEN (IF anomalous THEN kind ELSE "")
                                    ELSE p.anomaly_type,
                   label |-> IF a.ready
                             THEN (IF anomalous THEN StatusAnomaly
                                   ELSE StatusNormal)
                             ELSE p.label,
                   scored |-> a.ready,
                   calls |-> [ready |-> a.ready,
                              window |-> IF a.ready THEN get_window(a.buffer)
                                         ELSE None,
                              classified |-> a.ready /\ anomalous]]
         ELSE [prev_xy |-> p.prev_xy, buffer |-> p.buffer,
               since_last |-> p.since_last, is_anomaly |-> p.is_anomaly,
               anomaly_type |-> p.anomaly_type, label |-> p.label,
               scored |-> FALSE, calls |-> NoCalls]
    ELSE [prev_xy |-> p.prev_xy, buffer |-> p.buffer,
          since_last |-> p.since_last, is_anomaly |-> p.is_anomaly,
          anomaly_type |-> p.anomaly_type,
          label |-> IF dets = <<>> THEN StatusNoPerson ELSE StatusLost,
          scored |-> FALSE, calls |-> NoCalls]

(***************************************************************************)
(* Inputs of the worker: detections per frame, beacon lists, frame height  *)
(***************************************************************************)
MaxDets == 2

\* a person; the same person jittered (IoU 0.747); a narrow box inside the
\* first with IoU exactly 0.3 (and 0.171 with the second); a degenerate box
\* of height 0
Boxes == { <<100, 100, 200, 300>>, <<110, 110, 210, 310>>,
           <<100, 100, 130, 300>>, <<100, 100, 200, 100>> }

\* the detector's non-maximum suppression (IoU 0.7) reports a person once:
\* the boxes of a frame are distinct and no two overlap by more than 0.7
DetectionLists ==
    { d \in UNION { [1..n -> [bbox : Boxes]] : n \in 0..MaxDets } :
        \A i, j \in 1..Len(d) :
            i # j => /\ d[i] # d[j]
                     /\ ~FracGreater(iou(d[i].bbox, d[j].bbox), <<7, 10>>) }

\* no device; the target at 2.5 m (TEST_BLE_REQUESTS); an entry without a
\* distance
BleInputs == { <<>>, <<[UUID |-> "target", distance |-> 25]>>,
               <<[UUID |-> "target"]>> }

FrameHeights == {480}

\* FRAME_STEP: every frame is processed
FrameSteps == {1}

\* FOCAL_HEIGHT from the environment: unset (0) or given
FocalOverrides == {0}

ClassifyOutputs == {"FAINTING", "SWAYING", "CROUCHING", "HAND ON HEAD",
                    "UNKNOWN"}

NoTelemetry == [published |-> FALSE]

\* the classifier is not part of the worker's state
ClsIdle == window = <<>> /\ cls_result = ""

WorkerInit ==
    /\ active = FALSE
    /\ request_relock = FALSE
    /\ focal_height \in FocalOverrides
    /\ focal_initialized = (focal_height > 0)
    /\ telemetry = NoTelemetry
    /\ pc = "read"
    /\ frame_count = 0
    /\ frame_step \in FrameSteps
    /\ detections = <<>>
    /\ target = 0
    /\ is_active = FALSE
    /\ target_bbox = None
    /\ lost_count = 0
    /\ tracking_mode = "INACTIVE"
    /\ ble_devices = <<>>
    /\ ble_dist = NoDist
    /\ ble_fetched = FALSE
    /\ prev_xy = FALSE
    /\ buffer = <<>>
    /\ since_last = 0
    /\ is_anomaly = FALSE
    /\ anomaly_type = ""
    /\ label = StatusInactive
    /\ calls = NoCalls
    /\ act_pc = "idle"

\* lines 230-236: cap.read() gave no frame; sleep, reopen, continue
WorkerNoFrame ==
    /\ pc = "read"
    /\ UNCHANGED vars

\* lines 230-248: a frame is read, the calibration scale is initialised on
\* the first frame, the detector runs, target is None and _active is read
WorkerReadFrom(Lists) ==
    /\ pc = "read"
    /\ \E fh \in FrameHeights, dets \in Lists :
          /\ frame_count' = next_frame_count(frame_count, frame_step)
          /\ IF frame_count' = 1 /\ ~focal_initialized
             THEN /\ focal_height' = init_focal_from_frame(fh)
                  /\ focal_initialized' = TRUE
             ELSE UNCHANGED <<focal_height, focal_initialized>>
          /\ detections' = dets
    /\ target' = 0
    /\ is_active' = active
    /\ pc' = "step"
    /\ UNCHANGED <<active, request_relock, telemetry, frame_step, lock_vars,
                   pipe_vars, act_pc, cls_vars, unit_vars>>

WorkerRead == WorkerReadFrom(DetectionLists)

\* lines 250-407: relock handling, lock controller, feature pipeline and
\* publication of the snapshot
WorkerStep(Verdicts) ==
    /\ pc = "step"
    /\ LET relock == request_relock
           tb == IF relock THEN None ELSE target_bbox
           p0 == IF relock
                 THEN [prev_xy |-> FALSE, buffer |-> <<>>, since_last |-> 0,
                       is_anomaly |-> FALSE, anomaly_type |-> "",
                       label |-> StatusWaiting]
                 ELSE [prev_xy |-> prev_xy, buffer |-> buffer,
                       since_last |-> since_last, is_anomaly |-> is_anomaly,
                       anomaly_type |-> anomaly_type, label |-> label]
       IN
       \* line 269: the beacon list, fetched in the lock-on branch only
       \E ble \in (IF is_active /\ tb = None THEN BleInputs
                   ELSE {ble_devices}) :
       \E lk \in {lock_controller(tb, detections, ble)} :
       \E p1 \in {[prev_xy      |-> IF lk.reset THEN FALSE ELSE p0.prev_xy,
                   buffer       |-> IF lk.reset THEN <<>> ELSE p0.buffer,
                   since_last   |-> IF lk.reset THEN 0 ELSE p0.since_last,
                   is_anomaly   |-> p0.is_anomaly,
                   anomaly_type |-> p0.anomaly_type,
                   label        |-> IF ~is_active THEN StatusInactive
                                    ELSE p0.label]} :
       \* lines 350, 356: the scorer's verdict and the classifier's label,
       \* obtained only when buffer.add returned ready
       \E ready \in {pipeline(lk.target, detections, p1, FALSE, "").scored} :
       \E anomalous \in (IF ready THEN Verdicts ELSE {FALSE}) :
       \E kind \in (IF anomalous THEN ClassifyOutputs ELSE {""}) :
       \E p2 \in {pipeline(lk.target, detections, p1, anomalous, kind)} :
            /\ request_relock' = FALSE
            /\ target' = lk.target
            /\ tracking_mode' = lk.mode
            /\ target_bbox' = lk.target_bbox
            /\ lost_count' = lk.lost_count
            /\ focal_height' = lk.focal
            /\ ble_devices' = lk.ble_devices
            /\ ble_dist' = lk.ble_dist
            /\ ble_fetched' = lk.fetched
            /\ prev_xy' = p2.prev_xy
            /\ buffer' = p2.buffer
            /\ since_last' = p2.since_last
            /\ is_anomaly' = p2.is_anomaly
            /\ anomaly_type' = p2.anomaly_type
            /\ label' = p2.label
            /\ calls' = p2.calls
            /\ telemetry' = [published        |-> TRUE,
                             status           |-> p2.label,
                             is_anomaly       |-> p2.is_anomaly,
                             anomaly_type     |-> p2.anomaly_type,
                             buffer_fill      |-> Len(p2.buffer),
                             ble_distance     |-> lk.ble_dist,
                             tracking_mode    |-> lk.mode,
                             lost_count       |-> lk.lost_count,
                             focal_height     |-> lk.focal]
    \* the frame's detections are not read after the iteration
    /\ detections' = <<>>
    /\ pc' = "read"
    /\ UNCHANGED <<active, focal_initialized, frame_count, frame_step,
                   is_active, act_pc, cls_vars, unit_vars>>

\* pose_activate, line 426: _active.set()
ActivateSetActive ==
    /\ act_pc = "idle"
    /\ active' = TRUE
    /\ act_pc' = "relock"
    /\ UNCHANGED <<request_relock, focal_height, focal_initialized, telemetry,
                   loop_vars, lock_vars, pipe_vars, cls_vars, unit_vars>>

\* pose_activate, line 427: _request_relock.set()
ActivateSetRelock ==
    /\ act_pc = "relock"
    /\ request_relock' = TRUE
    /\ act_pc' = "idle"
    /\ UNCHANGED <<active, focal_height, focal_initialized, telemetry,
                   loop_vars, lock_vars, pipe_vars, cls_vars, unit_vars>>

\* pose_deactivate, line 433: _active.clear()
Deactivate ==
    /\ act_pc = "idle"
    /\ active' = FALSE
    /\ UNCHANGED <<request_relock, focal_height, focal_initialized, telemetry,
                   loop_vars, lock_vars, pipe_vars, act_pc, cls_vars,
                   unit_vars>>

(***************************************************************************)
(* The shared holder: _lock, _state, _latest_anomaly; the worker as        *)
(* publisher and the three readers                                         *)
(***************************************************************************)
\* frames published in a run
MaxPublished == 3

Readers == {"mjpeg", "ws", "anomaly"}

NoValue == [none |-> TRUE]

\* "timestamp": None; clock readings are 1 .. MaxTime
NoTime == 0

MaxTime == 3

\* variant: the worker takes the lock anew for each group of assignments
worker_program_splitLock ==
    <<"frame", "build", "acquire", "set_jpeg", "set_telemetry", "release",
      "acquire", "set_is_anomaly", "release",
      "acquire", "set_anomaly_type", "set_timestamp", "release">>

\* one iteration of _bg_loop as the holder sees it: the frame's work (frame
\* acquisition, detector, beacon fetch, scorer: lines 230-379), the new
\* telemetry dict (381-400), then `with _lock:` and its five assignments
\* (402-407)
worker_program ==
    <<"frame", "build", "acquire", "set_jpeg", "set_telemetry",
      "set_is_anomaly", "set_anomaly_type", "set_timestamp", "release">>

\* variant: the reader sends before it leaves the with block
reader_program_sendsLocked == <<"acquire", "copy", "send", "release">>

\* one round of a reader: `with _lock:` and the one copy inside it, then
\* outside the lock the yield, send_text or return and the sleep
\* (get_anomaly_signal 450-452, _mjpeg_gen 470-480, pose_ws 500-505)
reader_program == <<"acquire", "copy", "release", "send">>

\* the calls that can block: the frame's work of the worker, the send and
\* sleep of a reader
Blocking == {"frame", "send"}

worker_at == worker_program[pub.pc]

reader_at(r) == reader_program[rd[r].pc]

next_pc(prog, i) == IF i = Len(prog) THEN 1 ELSE i + 1

\* lines 56-60 and 169-174
HolderInit ==
    /\ lock = "free"
    /\ state = [jpeg |-> 0, telemetry |-> 0]
    /\ latest_anomaly = [is_anomaly |-> FALSE, anomaly_type |-> "",
                         timestamp |-> NoTime]
    /\ heap = [k \in 1..MaxPublished |-> NoValue]
    /\ pub = [pc |-> 1, frame |-> 0, is_anomaly |-> FALSE,
              anomaly_type |-> ""]
    /\ rd = [r \in Readers |-> [pc |-> 1, got |-> NoValue]]
    /\ published = <<[jpeg |-> 0, telemetry |-> 0,
                      anomaly |-> [is_anomaly |-> FALSE, anomaly_type |-> "",
                                   timestamp |-> NoTime]]>>

\* lines 230-379: the frame's work leaves is_anomaly and anomaly_type
PubFrame ==
    /\ worker_at = "frame"
    /\ pub.frame < MaxPublished
    /\ \E a \in BOOLEAN :
          pub' = [pc |-> next_pc(worker_program, pub.pc),
                  frame |-> pub.frame + 1, is_anomaly |-> a,
                  anomaly_type |-> IF a THEN "FAINTING" ELSE ""]
    /\ UNCHANGED <<lock, state, latest_anomaly, heap, rd, published,
                   outside_vars>>

\* lines 381-400: telemetry = {...}, a new dict
PubBuild ==
    /\ worker_at = "build"
    /\ heap' = [heap EXCEPT ![pub.frame] =
                   [frame |-> pub.frame, is_anomaly |-> pub.is_anomaly,
                    anomaly_type |-> pub.anomaly_type]]
    /\ pub' = [pub EXCEPT !.pc = next_pc(worker_program, pub.pc)]
    /\ UNCHANGED <<lock, state, latest_anomaly, rd, published,
                   outside_vars>>

\* line 402: with _lock (entry)
PubAcquire ==
    /\ worker_at = "acquire"
    /\ lock = "free"
    /\ lock' = "worker"
    /\ pub' = [pub EXCEPT !.pc = next_pc(worker_program, pub.pc)]
    /\ UNCHANGED <<state, latest_anomaly, heap, rd, published,
                   outside_vars>>

\* line 403: _state["jpeg"] = jpeg.tobytes()
PubSetJpeg ==
    /\ worker_at = "set_jpeg"
    /\ state' = [state EXCEPT !.jpeg = pub.frame]
    /\ pub' = [pub EXCEPT !.pc = next_pc(worker_program, pub.pc)]
    /\ UNCHANGED <<lock, latest_anomaly, heap, rd, published,
                   outside_vars>>

\* line 404: _state["telemetry"] = telemetry
PubSetTelemetry ==
    /\ worker_at = "set_telemetry"
    /\ state' = [state EXCEPT !.telemetry = pub.frame]
    /\ pub' = [pub EXCEPT !.pc = next_pc(worker_program, pub.pc)]
    /\ UNCHANGED <<lock, latest_anomaly, heap, rd, published,
                   outside_vars>>

\* line 405: _latest_anomaly["is_anomaly"] = is_anomaly
PubSetIsAnomaly ==
    /\ worker_at = "set_is_anomaly"
    /\ latest_anomaly' = [latest_anomaly EXCEPT !.is_anomaly = pub.is_anomaly]
    /\ pub' = [pub EXCEPT !.pc = next_pc(worker_program, pub.pc)]
    /\ UNCHANGED <<lock, state, heap, rd, published,
                   outside_vars>>

\* line 406: _latest_anomaly["anomaly_type"] = anomaly_type
PubSetAnomalyType ==
    /\ worker_at = "set_anomaly_type"
    /\ latest_anomaly' =
          [latest_anomaly EXCEPT !.anomaly_type = pub.anomaly_type]
    /\ pub' = [pub EXCEPT !.pc = next_pc(worker_program, pub.pc)]
    /\ UNCHANGED <<lock, state, heap, rd, published,
                   outside_vars>>

\* variant: a frame that is not anomalous clears the timestamp
PubSetTimestamp_clearsWhenNormal ==
    /\ worker_at = "set_timestamp"
    /\ \E now \in Max2(latest_anomaly.timestamp, 1)..MaxTime :
          latest_anomaly' =
             [latest_anomaly EXCEPT !.timestamp =
                 IF pub.is_anomaly THEN now ELSE NoTime]
    /\ pub' = [pub EXCEPT !.pc = next_pc(worker_program, pub.pc)]
    /\ UNCHANGED <<lock, state, heap, rd, published,
                   outside_vars>>

\* line 407: round(time.time(), 3) for an anomalous frame, else the
\* timestamp already there.  The clock is read as one that is not set back:
\* a reading is no earlier than any reading before it, and two readings may
\* round to the same value
PubSetTimestamp ==
    /\ worker_at = "set_timestamp"
    /\ \E now \in Max2(latest_anomaly.timestamp, 1)..MaxTime :
          latest_anomaly' =
             [latest_anomaly EXCEPT !.timestamp =
                 IF pub.is_anomaly THEN now ELSE latest_anomaly.timestamp]
    /\ pub' = [pub EXCEPT !.pc = next_pc(worker_program, pub.pc)]
    /\ UNCHANGED <<lock, state, heap, rd, published,
                   outside_vars>>

\* line 407: the with block is left; the frame's publication has ended when
\* the program wraps around
PubRelease ==
    /\ worker_at = "release"
    /\ lock' = "free"
    /\ pub' = [pub EXCEPT !.pc = next_pc(worker_program, pub.pc)]
    /\ published' =
          IF pub.pc = Len(worker_program)
          THEN Append(published, [jpeg |-> state.jpeg,
                                  telemetry |-> state.telemetry,
                                  anomaly |-> latest_anomaly])
          ELSE published
    /\ UNCHANGED <<state, latest_anomaly, heap, rd,
                   outside_vars>>

\* lines 450, 470, 500: with _lock (entry)
ReaderAcquire(r) ==
    /\ reader_at(r) = "acquire"
    /\ lock = "free"
    /\ lock' = r
    /\ rd' = [rd EXCEPT ![r].pc = next_pc(reader_program, rd[r].pc)]
    /\ UNCHANGED <<state, latest_anomaly, heap, pub, published,
                   outside_vars>>

\* line 471: jpeg = _state["jpeg"]; line 501: t = _state["telemetry"] (the
\* dict itself, kept here with the content it has when handed over);
\* line 451: out = dict(_latest_anomaly) (a copy)
ReaderCopy(r) ==
    /\ reader_at(r) = "copy"
    /\ rd' = [rd EXCEPT
                ![r].pc = next_pc(reader_program, rd[r].pc),
                ![r].got =
                   CASE r = "mjpeg" -> [jpeg |-> state.jpeg]
                     [] r = "ws" ->
                          [telemetry |-> state.telemetry,
                           seen |-> IF state.telemetry = 0 THEN NoValue
                                    ELSE heap[state.telemetry]]
                     [] r = "anomaly" -> [anomaly |-> latest_anomaly]]
    /\ UNCHANGED <<lock, state, latest_anomaly, heap, pub, published,
                   outside_vars>>

\* lines 451, 471, 501: the with block is left
ReaderRelease(r) ==
    /\ reader_at(r) = "release"
    /\ lock' = "free"
    /\ rd' = [rd EXCEPT ![r].pc = next_pc(reader_program, rd[r].pc)]
    /\ UNCHANGED <<state, latest_anomaly, heap, pub, published,
                   outside_vars>>

\* lines 452, 472-480, 503-505: the value goes out and the round ends
ReaderSend(r) ==
    /\ reader_at(r) = "send"
    /\ rd' = [rd EXCEPT ![r].pc = next_pc(reader_program, rd[r].pc),
                        ![r].got = IF next_pc(reader_program, rd[r].pc) = 1
                                   THEN NoValue ELSE rd[r].got]
    /\ UNCHANGED <<lock, state, latest_anomaly, heap, pub, published,
                   outside_vars>>

HolderNext ==
    \/ PubFrame
    \/ PubBuild
    \/ PubAcquire
    \/ PubSetJpeg
    \/ PubSetTelemetry
    \/ PubSetIsAnomaly
    \/ PubSetAnomalyType
    \/ PubSetTimestamp
    \/ PubRelease
    \/ \E r \in Readers : ReaderAcquire(r)
    \/ \E r \in Readers : ReaderCopy(r)
    \/ \E r \in Readers : ReaderRelease(r)
    \/ \E r \in Readers : ReaderSend(r)

(***************************************************************************)
(* _ensure_bg and the endpoints that call it, all coroutines of the one    *)
(* event loop                                                              *)
(***************************************************************************)
\* pose_activate (425), _mjpeg_gen (469), pose_mjpeg (485), pose_ws (496),
\* pose_dashboard (988)
Endpoints == {"pose_activate", "_mjpeg_gen", "pose_mjpeg", "pose_ws",
              "pose_dashboard"}

\* variant: the handler gives up the event loop between the test of the
\* flag and its assignment
handler_program_awaitsInside ==
    <<"check", "await", "set", "start", "await", "return">>

\* a handler: _ensure_bg() first, without an await inside (if not
\* _thread_started; _thread_started = True; Thread(...).start(), lines
\* 415-418), then the handler's own awaits and its end
handler_program == <<"check", "set", "start", "await", "return">>

handler_at(h) == handler_program[ep[h].pc]

\* line 410
EnsureInit ==
    /\ thread_started = FALSE
    /\ workers = 0
    /\ running = "none"
    /\ ep = [h \in Endpoints |-> [at |-> "idle", pc |-> 1, saw |-> FALSE]]

\* a request for the endpoint arrives
Request(h) ==
    /\ ep[h].at = "idle"
    /\ ep' = [ep EXCEPT ![h] = [at |-> "ready", pc |-> 1, saw |-> FALSE]]
    /\ UNCHANGED <<thread_started, workers, running, served_vars>>

\* the event loop, executing nothing, picks a handler that can go on
Schedule(h) ==
    /\ running = "none"
    /\ ep[h].at \in {"ready", "suspended"}
    /\ running' = h
    /\ ep' = [ep EXCEPT ![h].at = "run"]
    /\ UNCHANGED <<thread_started, workers, served_vars>>

\* line 415: if not _thread_started
EnsureCheck(h) ==
    /\ running = h
    /\ handler_at(h) = "check"
    /\ ep' = [ep EXCEPT ![h].saw = thread_started, ![h].pc = ep[h].pc + 1]
    /\ UNCHANGED <<thread_started, workers, running, served_vars>>

\* line 416: _thread_started = True
EnsureSet(h) ==
    /\ running = h
    /\ handler_at(h) = "set"
    /\ thread_started' = (IF ep[h].saw THEN thread_started ELSE TRUE)
    /\ ep' = [ep EXCEPT ![h].pc = ep[h].pc + 1]
    /\ UNCHANGED <<workers, running, served_vars>>

\* lines 417-418: threading.Thread(target=_bg_loop, daemon=True).start()
EnsureStart(h) ==
    /\ running = h
    /\ handler_at(h) = "start"
    /\ workers' = (IF ep[h].saw THEN workers ELSE workers + 1)
    /\ ep' = [ep EXCEPT ![h].pc = ep[h].pc + 1]
    /\ UNCHANGED <<thread_started, running, served_vars>>

\* an await of the handler (ws.accept, send_text, asyncio.sleep, the
\* response): the event loop is free for another handler
HandlerAwait(h) ==
    /\ running = h
    /\ handler_at(h) = "await"
    /\ running' = "none"
    /\ ep' = [ep EXCEPT ![h].at = "suspended", ![h].pc = ep[h].pc + 1]
    /\ UNCHANGED <<thread_started, workers, served_vars>>

\* the handler ends
HandlerReturn(h) ==
    /\ running = h
    /\ handler_at(h) = "return"
    /\ running' = "none"
    /\ ep' = [ep EXCEPT ![h] = [at |-> "idle", pc |-> 1, saw |-> FALSE]]
    /\ UNCHANGED <<thread_started, workers, served_vars>>

EnsureNext ==
    \/ \E h \in Endpoints : Request(h)
    \/ \E h \in Endpoints : Schedule(h)
    \/ \E h \in Endpoints : EnsureCheck(h)
    \/ \E h \in Endpoints : EnsureSet(h)
    \/ \E h \in Endpoints : EnsureStart(h)
    \/ \E h \in Endpoints : HandlerAwait(h)
    \/ \E h \in Endpoints : HandlerReturn(h)

\* line 244: extractor.extract_all raises; nothing in _bg_loop catches it,
\* the exception leaves the loop and the thread ends
WorkerDetectorRaises ==
    /\ pc = "read"
    /\ \E fh \in FrameHeights :
          /\ frame_count' = next_frame_count(frame_count, frame_step)
          /\ IF frame_count' = 1 /\ ~focal_initialized
             THEN /\ focal_height' = init_focal_from_frame(fh)
                  /\ focal_initialized' = TRUE
             ELSE UNCHANGED <<focal_height, focal_initialized>>
    /\ pc' = "dead"
    /\ UNCHANGED <<active, request_relock, telemetry, frame_step, detections,
                   is_active, target, lock_vars, pipe_vars, act_pc, cls_vars,
                   unit_vars>>

\* line 350: predictor.predict raises on the window that buffer.add
\* completed; the iteration has run up to that call, nothing is published
\* and the thread ends
WorkerScorerRaises ==
    /\ pc = "step"
    /\ LET relock == request_relock
           tb == IF relock THEN None ELSE target_bbox
           p0 == IF relock
                 THEN [prev_xy |-> FALSE, buffer |-> <<>>, since_last |-> 0,
                       is_anomaly |-> FALSE, anomaly_type |-> "",
                       label |-> StatusWaiting]
                 ELSE [prev_xy |-> prev_xy, buffer |-> buffer,
                       since_last |-> since_last, is_anomaly |-> is_anomaly,
                       anomaly_type |-> anomaly_type, label |-> label]
       IN
       \E ble \in (IF is_active /\ tb = None THEN BleInputs
                   ELSE {ble_devices}) :
       \E lk \in {lock_controller(tb, detections, ble)} :
       \E p1 \in {[prev_xy      |-> IF lk.reset THEN FALSE ELSE p0.prev_xy,
                   buffer       |-> IF lk.reset THEN <<>> ELSE p0.buffer,
                   since_last   |-> IF lk.reset THEN 0 ELSE p0.since_last,
                   is_anomaly   |-> p0.is_anomaly,
                   anomaly_type |-> p0.anomaly_type,
                   label        |-> IF ~is_active THEN StatusInactive
                                    ELSE p0.label]} :
       \E p2 \in {pipeline(lk.target, detections, p1, FALSE, "")} :
            /\ p2.scored
            /\ request_relock' = FALSE
            /\ target' = lk.target
            /\ tracking_mode' = lk.mode
            /\ target_bbox' = lk.target_bbox
            /\ lost_count' = lk.lost_count
            /\ focal_height' = lk.focal
            /\ ble_devices' = lk.ble_devices
            /\ ble_dist' = lk.ble_dist
            /\ ble_fetched' = lk.fetched
            /\ prev_xy' = p2.prev_xy
            /\ buffer' = p2.buffer
            /\ since_last' = p2.since_last
            /\ is_anomaly' = p1.is_anomaly
            /\ anomaly_type' = p1.anomaly_type
            /\ label' = p1.label
            /\ calls' = p2.calls
    /\ pc' = "dead"
    /\ UNCHANGED <<active, focal_initialized, telemetry, frame_count,
                   frame_step, detections, is_active, act_pc, cls_vars,
                   unit_vars>>

\* line 417: the worker is a daemon thread; the interpreter ends it with
\* the process, wherever in the loop it is
ProcessExit ==
    /\ pc \in {"read", "step"}
    /\ pc' = "killed"
    /\ UNCHANGED <<shared_vars, frame_count, frame_step, detections,
                   is_active, target, lock_vars, pipe_vars, act_pc, cls_vars,
                   unit_vars>>

Init == WorkerInit /\ ClsIdle /\ SbIdle /\ FeInit /\ HolderInit
    /\ EnsureInit

\* classify_anomaly called on its own: the worker is not running
ClassifyInit == ClsInit /\ WorkerInit /\ SbIdle /\ FeInit /\ HolderInit
    /\ EnsureInit

SpecClassify == ClassifyInit /\ [][ClsNext]_vars

\* a SequenceBuffer on its own
BufferInit == SbInit /\ WorkerInit /\ ClsIdle /\ FeInit /\ HolderInit
    /\ EnsureInit

SpecBuffer == BufferInit /\ [][SbNext]_vars

\* a FeatureEngineer on its own
FeatureInit == FeInit /\ WorkerInit /\ ClsIdle /\ SbIdle /\ HolderInit
    /\ EnsureInit

SpecFeature == FeatureInit /\ [][FeNext]_vars

Next ==
    \/ WorkerNoFrame
    \/ WorkerRead
    \/ WorkerStep({FALSE})
    \/ ActivateSetActive
    \/ ActivateSetRelock
    \/ Deactivate

Spec == Init /\ [][Next]_vars

\* frames of the run with failures: nobody, or one person
PipelineLists ==
    { <<>>, <<[bbox |-> <<100, 100, 200, 300>>]>>,
      <<[bbox |-> <<100, 100, 130, 300>>]>> }

\* the server answers commands until the process ends
Serving == pc # "killed"

\* the worker with a scorer that may flag a window, a detector and a scorer
\* that may raise, and the end of the process
NextPipeline ==
    \/ Serving /\ WorkerNoFrame
    \/ WorkerReadFrom(PipelineLists)
    \/ WorkerStep({FALSE, TRUE})
    \/ WorkerDetectorRaises
    \/ WorkerScorerRaises
    \/ ProcessExit
    \/ Serving /\ ActivateSetActive
    \/ Serving /\ ActivateSetRelock
    \/ Serving /\ Deactivate

SpecPipeline == Init /\ [][NextPipeline]_vars

\* the publisher and the readers of the holder
SpecHolder == Init /\ [][HolderNext]_vars

\* the endpoints calling _ensure_bg
SpecEnsure == Init /\ [][EnsureNext]_vars

(***************************************************************************)
(* Claims about classify_anomaly (checked under SpecClassify)              *)
(***************************************************************************)
ClsDone == cls_result # ""

\* number of true checks of a label on the current window
TrueChecks(lbl) == CountTrue(checks(lbl, window))

\* C1: whenever FAINTING's match score (true checks / 5) is at least 0.35,
\* classify_anomaly returns FAINTING, whatever the other labels score.
C1_FaintingOverride ==
    (ClsDone /\ 100 * TrueChecks("FAINTING") >= 35 * 5)
        => cls_result = "FAINTING"

\* C1 witness: FAINTING exactly at its lowest qualifying score (2 of 5) wins
\* against HAND ON HEAD scoring 4 of 4.
C1_Witness ==
    /\ cls_result = "FAINTING"
    /\ TrueChecks("FAINTING") = 2
    /\ TrueChecks("HAND ON HEAD") = 4

\* C2: the result is UNKNOWN iff no label's score meets its own minimum, and
\* otherwise it is one of the qualifying labels.
C2_UnknownIffNoMatch ==
    ClsDone =>
        /\ (cls_result = "UNKNOWN")
              <=> (\A i \in 1..Len(Labels) : ~qualifies(Labels[i], window))
        /\ cls_result # "UNKNOWN"
              => \E i \in 1..Len(Labels) :
                    Labels[i] = cls_result /\ qualifies(cls_result, window)

\* C2 witness: UNKNOWN is returned although two labels have true checks.
C2_Witness ==
    /\ cls_result = "UNKNOWN"
    /\ TrueChecks("FAINTING") = 1
    /\ TrueChecks("HAND ON HEAD") = 2

\* C3: when FAINTING does not qualify, the result is the qualifying label
\* with the greatest (priority, score) pair: SWAYING if it qualifies, else
\* CROUCHING if it qualifies, else HAND ON HEAD if it qualifies; a higher
\* score never lets a lower-priority label win.
C3_PriorityThenScore ==
    (ClsDone /\ ~qualifies("FAINTING", window) /\ cls_result # "UNKNOWN") =>
        /\ \A i \in 1..Len(Labels) :
              (qualifies(Labels[i], window) /\ Labels[i] # cls_result)
                  => priority(cls_result) > priority(Labels[i])
        /\ qualifies("SWAYING", window) => cls_result = "SWAYING"
        /\ (~qualifies("SWAYING", window) /\ qualifies("CROUCHING", window))
              => cls_result = "CROUCHING"

\* C3 witness: SWAYING at 2 of 4 wins against HAND ON HEAD at 4 of 4.
C3_Witness ==
    /\ cls_result = "SWAYING"
    /\ TrueChecks("SWAYING") = 2
    /\ TrueChecks("HAND ON HEAD") = 4

\* C4: a label qualifies iff (true checks) / (checks) >= its minimum; in
\* counts FAINTING needs 2 of 5, SWAYING 2 of 4, CROUCHING 2 of 4 and
\* HAND ON HEAD 3 of 4; FAINTING has the lowest minimum, HAND ON HEAD the
\* highest.  `matches` holds exactly the qualifying labels.
C4_QualifyCounts ==
    LET mw == matches(window)
        m  == {mw[i] : i \in 1..Len(mw)}
    IN  ClsDone =>
        /\ Len(faint_checks(window)) = 5
        /\ Len(sway_checks(window)) = 4
        /\ Len(crouch_checks(window)) = 4
        /\ Len(hoh_checks(window)) = 4
        /\ ("FAINTING" \in m)     <=> TrueChecks("FAINTING") >= 2
        /\ ("SWAYING" \in m)      <=> TrueChecks("SWAYING") >= 2
        /\ ("CROUCHING" \in m)    <=> TrueChecks("CROUCHING") >= 2
        /\ ("HAND ON HEAD" \in m) <=> TrueChecks("HAND ON HEAD") >= 3
        /\ \A i \in 2..Len(Labels) :
              /\ MIN_SCORE("FAINTING") < MIN_SCORE(Labels[i])
              /\ MIN_SCORE(Labels[i]) <= MIN_SCORE("HAND ON HEAD")

\* C4 witness: HAND ON HEAD with 2 of 4 does not qualify while SWAYING and
\* FAINTING with 2 true checks do.
C4_Witness ==
    /\ ClsDone
    /\ TrueChecks("HAND ON HEAD") = 2
    /\ TrueChecks("SWAYING") = 2
    /\ TrueChecks("FAINTING") = 2

NonDecreasing(c) == \A i \in 1..(Len(c) - 1) : c[i] <= c[i + 1]

\* the window of the end-to-end scenario: nose_y and hip_y columns
\* monotonically increasing, final vertical_ratio = 1.5 * initial
FaintScenario ==
    /\ Len(window) = NumFrames
    /\ NonDecreasing(Column(window, "nose_y"))
    /\ NonDecreasing(Column(window, "hip_y"))
    /\ 2 * Last(Column(window, "vert_ratio"))
          = 3 * First(Column(window, "vert_ratio"))

\* C5 as stated: every window of the scenario is classified FAINTING with a
\* FAINTING score >= 0.35.  (Stated here for positive initial vertical_ratio
\* only, so that the violation found does not rest on 1.5 * 0 = 0; the
\* statement for all windows of the scenario is stronger and fails with it.)
C5_Original ==
    (ClsDone /\ FaintScenario /\ First(Column(window, "vert_ratio")) > 0) =>
        /\ cls_result = "FAINTING"
        /\ 100 * TrueChecks("FAINTING") >= 35 * 5

\* C5 amended: a window of the scenario whose initial vertical_ratio is
\* positive and in which nose_y rises by more than 0.06 or hip_y by more
\* than 0.05 from the first to the last frame is classified FAINTING with a
\* FAINTING score >= 0.35.
C5_FaintScenario ==
    (/\ ClsDone
     /\ FaintScenario
     /\ First(Column(window, "vert_ratio")) > 0
     /\ \/ Last(Column(window, "nose_y")) - First(Column(window, "nose_y")) > 60
        \/ Last(Column(window, "hip_y")) - First(Column(window, "hip_y")) > 50)
    =>  /\ cls_result = "FAINTING"
        /\ 100 * TrueChecks("FAINTING") >= 35 * 5

\* C5 witness: such a window with exactly two FAINTING checks true
\* (went_horizontal and hip_drop), classified FAINTING.
C5_Witness ==
    /\ cls_result = "FAINTING"
    /\ FaintScenario
    /\ First(Column(window, "vert_ratio")) > 0
    /\ faint_checks(window) = <<FALSE, FALSE, TRUE, FALSE, TRUE>>

(***************************************************************************)
(* Claims about the identity lock controller (checked under Spec)          *)
(***************************************************************************)
\* one completed iteration of the worker (lines 250-407)
Iteration == pc = "step" /\ pc' = "read"

\* an iteration that takes the LOCK-ON branch (line 266): active, and no
\* target box after the relock handling
LockOnIteration ==
    Iteration /\ is_active /\ (request_relock \/ target_bbox = None)

\* an iteration that takes the TRACKING branch (line 283)
TrackIteration ==
    Iteration /\ is_active /\ ~request_relock /\ target_bbox # None

\* the height the code uses for a box, max(y2 - y1, 1)
ClampedHeight(b) == IF b[4] - b[2] >= 1 THEN b[4] - b[2] ELSE 1

\* |scale / h_a - d| <= |scale / h_b - d|, and the strict comparison
EstDiffLeq(a, b, scale, d) ==
    Abs(scale - d * ClampedHeight(a)) * ClampedHeight(b)
        <= Abs(scale - d * ClampedHeight(b)) * ClampedHeight(a)

EstDiffLess(a, b, scale, d) == ~EstDiffLeq(b, a, scale, d)

\* C6: in LOCK_ON with at least one detection and a beacon reading, the
\* target chosen is a detection minimising
\* |calibration_scale / bbox_height - beacon_distance| over the frame's
\* detections, with the calibration scale as it was before the match
\* (bbox_height being the code's bbox_h = max(y2 - y1, 1)); of several
\* minimisers the earliest in list order is chosen.
C6_LockOnPicksClosest ==
    [][(LockOnIteration /\ detections # <<>> /\ ble_devices' # <<>>) =>
          \E k \in 1..Len(detections) :
             /\ target_bbox' = detections[k].bbox
             /\ \A j \in 1..Len(detections) :
                   EstDiffLeq(detections[k].bbox, detections[j].bbox,
                              focal_height, ble_dist')
             /\ \A j \in 1..(k - 1) :
                   EstDiffLess(detections[k].bbox, detections[j].bbox,
                               focal_height, ble_dist')]_vars

\* C6 witness: a lock-on that chose the second detection of the frame.
C6_Witness ==
    /\ pc = "read"
    /\ tracking_mode = "TRACKING"
    /\ ble_fetched
    /\ target = 2

\* a lock-on iteration that matched a detection
MatchIteration == LockOnIteration /\ target_bbox' # None

\* the one-time initialisation of the calibration scale (line 242)
FocalInitialisation == ~focal_initialized /\ focal_initialized'

\* C7 as stated: on every successful match the calibration scale becomes
\* beacon_distance * (height of the matched box), for every matched box, and
\* it changes at no other time after its initialisation.
C7_Original ==
    [][/\ MatchIteration =>
            focal_height' = ble_dist' * (target_bbox'[4] - target_bbox'[2])
       /\ focal_height' # focal_height =>
            (MatchIteration \/ FocalInitialisation)]_vars

\* C7 amended: on every successful match the calibration scale becomes
\* beacon_distance * max(height of the matched box, 1), the beacon distance
\* being the one _match_target returned; it changes at no other time after
\* its initialisation.
C7_RefineOnMatch ==
    [][/\ MatchIteration =>
            focal_height' = ble_dist' * ClampedHeight(target_bbox')
       /\ focal_height' # focal_height =>
            (MatchIteration \/ FocalInitialisation)]_vars

\* C7 witness: the scale is 2.5 m * 200 px after a match at 2.5 m with the
\* narrow box of height 200.
C7_Witness ==
    /\ pc = "read"
    /\ tracking_mode = "TRACKING"
    /\ ble_fetched
    /\ ble_dist = 25
    /\ target_bbox = <<100, 100, 130, 300>>
    /\ focal_height = 5000

\* C8: in LOCK_ON, a frame with no detections or with no beacon reading
\* leaves the controller in LOCK_ON without a target, the loss counter and
\* the calibration scale unchanged; and an iteration that starts active in
\* LOCK_ON without a target attempts the lock-on (again).
C8_LockOnRetry ==
    [][/\ (LockOnIteration /\ (detections = <<>> \/ ble_devices' = <<>>)) =>
            /\ tracking_mode' = "LOCK-ON"
            /\ target_bbox' = None
            /\ lost_count' = lost_count
            /\ focal_height' = focal_height
            /\ ble_fetched'
       /\ (Iteration /\ is_active /\ tracking_mode = "LOCK-ON"
                     /\ target_bbox = None) => ble_fetched']_vars

\* C8 witness: after a sustained loss, a lock-on attempt with a detection
\* but no beacon reading left the controller in LOCK_ON.
C8_Witness ==
    /\ pc = "read"
    /\ tracking_mode = "LOCK-ON"
    /\ ble_fetched
    /\ ble_devices = <<>>
    /\ label = StatusLost
    /\ target_bbox = None
    /\ lost_count = LOST_FRAMES_BEFORE_RELOCK + 1

\* C9 as stated: during lock-on, when the beacon entry carries no distance
\* value, or when every detection's estimated distance differs from the
\* beacon distance by more than a tolerance (here: more than 1 m), no
\* target is selected and the controller stays in LOCK_ON.
C9_NoGuess ==
    [][(/\ LockOnIteration
        /\ ble_devices' # <<>>
        /\ \/ "distance" \notin DOMAIN ble_devices'[1]
           \/ \A j \in 1..Len(detections) :
                 Abs(focal_height
                       - ble_devices'[1].distance
                           * ClampedHeight(detections[j].bbox))
                    > 10 * ClampedHeight(detections[j].bbox))
       => (target_bbox' = None /\ tracking_mode' = "LOCK-ON")]_vars

\* _iou(a, b) >= 0.3
IouAtLeastThreshold(a, b) == 10 * iou(a, b)[1] >= 3 * iou(a, b)[2]

\* C10: in TRACKING, if the maximum IoU between the previous target box and
\* the detections is >= 0.3, a detection of maximum IoU becomes the target
\* box, the loss counter becomes 0 and the mode stays TRACKING; if every
\* IoU is below 0.3 no detection is accepted (the loss counter grows and
\* the box is kept or dropped).
C10_TrackByIou ==
    [][TrackIteration =>
        /\ (\E j \in 1..Len(detections) :
               IouAtLeastThreshold(target_bbox, detections[j].bbox))
           => /\ \E k \in 1..Len(detections) :
                    /\ target_bbox' = detections[k].bbox
                    /\ \A j \in 1..Len(detections) :
                          ~FracGreater(iou(target_bbox, detections[j].bbox),
                                       iou(target_bbox, detections[k].bbox))
              /\ lost_count' = 0
              /\ tracking_mode' = "TRACKING"
        /\ (\A j \in 1..Len(detections) :
               ~IouAtLeastThreshold(target_bbox, detections[j].bbox))
           => /\ lost_count' = lost_count + 1
              /\ target_bbox' \in {target_bbox, None}]_vars

\* C10 witness: a tracking iteration accepted the second detection of the
\* frame.
C10_Witness ==
    /\ pc = "read"
    /\ is_active
    /\ ~ble_fetched
    /\ tracking_mode = "TRACKING"
    /\ lost_count = 0
    /\ target = 2

\* a TRACKING iteration with an accepted detection (hit) and one without
\* (miss)
TrackHit ==
    /\ TrackIteration
    /\ \E j \in 1..Len(detections) :
          IouAtLeastThreshold(target_bbox, detections[j].bbox)

TrackMiss ==
    /\ TrackIteration
    /\ \A j \in 1..Len(detections) :
          ~IouAtLeastThreshold(target_bbox, detections[j].bbox)

\* C11 as stated: in TRACKING the loss counter grows by exactly 1 on each
\* frame without an accepted detection, the target box staying unchanged on
\* such a frame, and it is reset to 0 on each frame with an accepted
\* detection.
C11_Original ==
    [][/\ TrackMiss => /\ lost_count' = lost_count + 1
                       /\ target_bbox' = target_bbox
       /\ TrackHit => lost_count' = 0]_vars

\* C11 amended: in TRACKING the loss counter grows by exactly 1 on each
\* frame without an accepted detection and is reset to 0 on each frame with
\* one; on a frame without an accepted detection the target box stays
\* unchanged unless the counter thereby exceeds the limit, in which case the
\* box is dropped.
C11_LossCounter ==
    [][/\ TrackMiss =>
            /\ lost_count' = lost_count + 1
            /\ target_bbox' = IF lost_count + 1 > LOST_FRAMES_BEFORE_RELOCK
                              THEN None ELSE target_bbox
       /\ TrackHit => lost_count' = 0]_vars

\* C11 witness: three misses in a row, the target box still held.
C11_Witness ==
    /\ pc = "read"
    /\ is_active
    /\ tracking_mode = "TRACKING"
    /\ target_bbox # None
    /\ lost_count = 3

\* the state of a reset Feature Engineer and Sequence Buffer
PipelineReset == prev_xy = FALSE /\ buffer = <<>> /\ since_last = 0

\* C12: the target is dropped only when the loss counter exceeds 15: a miss
\* that brings the counter to at most 15 keeps the target box and resets
\* nothing, the miss that brings it to 16 drops the target and resets the
\* Feature Engineer and the Sequence Buffer in that iteration, a TRACKING
\* iteration drops the target in no other case, and the next active
\* iteration after the drop is a lock-on attempt.
C12_RelockAfterLimit ==
    [][/\ (TrackMiss /\ lost_count + 1 <= 15) =>
            /\ target_bbox' = target_bbox
            /\ tracking_mode' = "TRACKING"
            /\ UNCHANGED <<prev_xy, buffer, since_last>>
       /\ (TrackMiss /\ lost_count + 1 = 16) =>
            /\ target_bbox' = None
            /\ PipelineReset'
       /\ TrackIteration => lost_count <= 15
       /\ (TrackIteration /\ target_bbox' = None) => lost_count' = 16
       /\ (Iteration /\ is_active /\ tracking_mode = "TRACKING"
                     /\ target_bbox = None) => ble_fetched']_vars

\* C12 witness: the 16th miss has dropped the target.
C12_Witness ==
    /\ pc = "read"
    /\ is_active
    /\ ~ble_fetched
    /\ tracking_mode = "TRACKING"
    /\ target_bbox = None
    /\ lost_count = 16
    /\ PipelineReset

\* an iteration that finds the relock request of an activate command
RelockIteration == Iteration /\ request_relock

\* C13: the iteration that finds the relock request set by activate, in any
\* mode, clears the request and resets the Feature Engineer and the
\* Sequence Buffer; if it saw the activate flag it performs a beacon lock-on
\* (the target is none, or a detection freshly matched against the beacon,
\* whose vector is then the first of the emptied buffer), and otherwise it
\* leaves the controller INACTIVE without a target, from where the first
\* iteration that sees the flag performs the lock-on.  The request is raised
\* only by activate, after the flag.
C13_ActivateRelocks ==
    [][/\ RelockIteration =>
            /\ request_relock' = FALSE
            /\ IF is_active
               THEN /\ ble_fetched'
                    /\ \/ /\ tracking_mode' = "LOCK-ON"
                          /\ target_bbox' = None
                          /\ PipelineReset'
                       \/ /\ tracking_mode' = "TRACKING"
                          /\ target_bbox' # None
                          /\ lost_count' = 0
                          /\ prev_xy'
                          /\ buffer' = <<TRUE>>
               ELSE /\ tracking_mode' = "INACTIVE"
                    /\ target_bbox' = None
                    /\ PipelineReset'
       /\ (Iteration /\ is_active /\ tracking_mode = "INACTIVE")
            => ble_fetched'
       /\ (request_relock' /\ ~request_relock)
            => (active /\ act_pc = "relock")]_vars

\* C13 witness: an activate during TRACKING, five misses into a loss, has
\* put the controller into LOCK_ON with the buffer emptied.
C13_Witness ==
    /\ pc = "read"
    /\ is_active
    /\ ble_fetched
    /\ tracking_mode = "LOCK-ON"
    /\ target_bbox = None
    /\ lost_count = 5
    /\ PipelineReset

\* C14: each iteration samples the activate flag once; an iteration that
\* sampled it clear, in whatever mode, ends INACTIVE without a target; the
\* flag is cleared only by deactivate and set only by activate.
C14_DeactivateClears ==
    [][/\ (pc = "read" /\ pc' = "step") => is_active' = active
       /\ (Iteration /\ ~is_active) =>
            /\ tracking_mode' = "INACTIVE"
            /\ target_bbox' = None
       /\ (active' /\ ~active) => (act_pc = "idle" /\ act_pc' = "relock")
       /\ (active /\ ~active') => (act_pc = "idle" /\ act_pc' = "idle")]_vars

\* C14 witness: a deactivate during TRACKING, seven misses into a loss, has
\* put the controller into INACTIVE.
C14_Witness ==
    /\ pc = "read"
    /\ ~is_active
    /\ ~active
    /\ tracking_mode = "INACTIVE"
    /\ target_bbox = None
    /\ lost_count = 7

\* C15: an INACTIVE controller holds no target; an iteration that starts
\* INACTIVE and did not see the activate flag stays INACTIVE without a
\* target and without a beacon fetch, whatever the frame shows, the counter,
\* the scale and the beacon data untouched; the mode leaves INACTIVE only in
\* an iteration that saw the flag, which only activate sets.
C15_InactiveStays ==
    [][/\ tracking_mode = "INACTIVE" => target_bbox = None
       /\ (Iteration /\ tracking_mode = "INACTIVE" /\ ~is_active) =>
            /\ tracking_mode' = "INACTIVE"
            /\ target_bbox' = None
            /\ ~ble_fetched'
            /\ UNCHANGED <<lost_count, focal_height, ble_devices, ble_dist>>
       /\ (tracking_mode = "INACTIVE" /\ tracking_mode' # "INACTIVE")
            => (Iteration /\ is_active)
       /\ (is_active' /\ ~is_active) => active]_vars

\* C15 witness: not active, frames showing persons have been processed and
\* the controller is INACTIVE without a target.
C15_Witness ==
    /\ pc = "read"
    /\ ~active
    /\ ~request_relock
    /\ lost_count = 0
    /\ ble_dist = NoDist
    /\ frame_count = 2
    /\ label = StatusLost
    /\ telemetry.published
    /\ tracking_mode = "INACTIVE"
    /\ target_bbox = None

\* the beacon list of TEST_BLE_REQUESTS: the target at 2.5 m
BeaconAt25 == <<[UUID |-> "target", distance |-> 25]>>

\* C16: with one person of box height h >= 1 in the frame and the beacon at
\* 2.5 m, the first iteration that sees the activate flag (coming from
\* INACTIVE, or finding the relock request) is a lock-on, and a lock-on
\* ends in TRACKING on that person within this one frame with the
\* calibration scale equal to 2.5 * h.
C16_LockWithinOneFrame ==
    [][/\ (Iteration /\ is_active
                     /\ (request_relock \/ tracking_mode = "INACTIVE"))
            => LockOnIteration
       /\ (/\ LockOnIteration
           /\ Len(detections) = 1
           /\ detections[1].bbox[4] - detections[1].bbox[2] >= 1
           /\ ble_devices' = BeaconAt25) =>
            /\ tracking_mode' = "TRACKING"
            /\ target_bbox' = detections[1].bbox
            /\ lost_count' = 0
            /\ focal_height'
                 = 25 * (detections[1].bbox[4] - detections[1].bbox[2])]_vars

\* C16 witness: the first detection, a person of height 200 px, locked at
\* 2.5 m with the scale 500.0.
C16_Witness ==
    /\ pc = "read"
    /\ is_active
    /\ ble_fetched
    /\ ble_devices = BeaconAt25
    /\ target = 1
    /\ tracking_mode = "TRACKING"
    /\ target_bbox = <<100, 100, 200, 300>>
    /\ focal_height = 5000

\* C21 as stated: every iteration in which the target box goes from a box
\* to none (by re-lock request, by sustained loss or by deactivation) also
\* resets the Feature Engineer and the Sequence Buffer.
C21_ResetOnDrop ==
    [][(Iteration /\ target_bbox # None /\ target_bbox' = None)
          => PipelineReset']_vars

\* C24: the worker samples the activate flag once per iteration, the flag
\* being the level the last command left; an iteration ends INACTIVE if its
\* sample was clear and in LOCK_ON or TRACKING if it was set, whatever the
\* mode before and whatever commands came earlier; the commands themselves
\* write nothing but the two flags.
C24_LastWriterWins ==
    [][/\ (pc = "read" /\ pc' = "step") => is_active' = active
       /\ Iteration =>
            IF is_active THEN tracking_mode' \in {"LOCK-ON", "TRACKING"}
            ELSE tracking_mode' = "INACTIVE"
       /\ (active' # active \/ act_pc' # act_pc) =>
            UNCHANGED <<loop_vars, lock_vars, pipe_vars, focal_height,
                        telemetry>>]_vars

\* C24 witness: deactivated after an active episode with three misses, the
\* worker has completed an inactive iteration.
C24_Witness ==
    /\ pc = "read"
    /\ act_pc = "idle"
    /\ ~active
    /\ ~is_active
    /\ ~request_relock
    /\ tracking_mode = "INACTIVE"
    /\ lost_count = 3
    /\ PipelineReset

\* what the iteration would yield had the relock request not been raised
WithoutRelock ==
    LET lk == lock_controller(target_bbox, detections, ble_devices')
        p1 == [prev_xy      |-> IF lk.reset THEN FALSE ELSE prev_xy,
               buffer       |-> IF lk.reset THEN <<>> ELSE buffer,
               since_last   |-> IF lk.reset THEN 0 ELSE since_last,
               is_anomaly   |-> is_anomaly,
               anomaly_type |-> anomaly_type,
               label        |-> label]
        p2 == pipeline(lk.target, detections, p1, FALSE, "")
    IN  [target_bbox |-> lk.target_bbox, lost_count |-> lk.lost_count,
         focal |-> lk.focal, prev_xy |-> p2.prev_xy, buffer |-> p2.buffer,
         since_last |-> p2.since_last]

\* C25 as stated: an activate re-issued while the controller is already
\* active in LOCK_ON or TRACKING leaves the lock state, the Feature Engineer
\* cache and the Sequence Buffer as they would have been without it.
C25_Original ==
    [][(/\ Iteration
        /\ is_active
        /\ request_relock
        /\ tracking_mode \in {"LOCK-ON", "TRACKING"}) =>
          /\ target_bbox' = WithoutRelock.target_bbox
          /\ lost_count' = WithoutRelock.lost_count
          /\ focal_height' = WithoutRelock.focal
          /\ prev_xy' = WithoutRelock.prev_xy
          /\ buffer' = WithoutRelock.buffer
          /\ since_last' = WithoutRelock.since_last]_vars

\* C25 amended: the activate flag is a level (setting it again changes
\* nothing, and a deactivate while INACTIVE leaves the lock state, the
\* Feature Engineer cache and the Sequence Buffer untouched), but every
\* activate also raises the re-lock request, which is an edge: the iteration
\* that finds it while tracking drops the old target, empties the buffer and
\* locks on afresh.
C25_LevelFlagEdgeRelock ==
    [][/\ (Iteration /\ ~is_active /\ ~request_relock
                     /\ tracking_mode = "INACTIVE") =>
            UNCHANGED <<target_bbox, lost_count, focal_height, tracking_mode,
                        prev_xy, buffer, since_last>>
       /\ (act_pc = "idle" /\ act_pc' = "relock") => active'
       /\ (act_pc = "relock" /\ act_pc' = "idle") =>
            (request_relock' /\ active' = active)
       /\ (Iteration /\ is_active /\ request_relock
                     /\ tracking_mode = "TRACKING" /\ target_bbox # None) =>
            /\ ble_fetched'
            /\ buffer' \in {<<>>, <<TRUE>>}
            /\ target_bbox' # None => lost_count' = 0]_vars

\* C25 witness: an activate re-issued during TRACKING is pending: the flag
\* is set as before and the re-lock request is raised.
C25_Witness ==
    /\ pc = "step"
    /\ act_pc = "idle"
    /\ active
    /\ is_active
    /\ request_relock
    /\ tracking_mode = "TRACKING"
    /\ target_bbox # None
    /\ Len(buffer) = WindowSize

(***************************************************************************)
(* Claims about the shared holder (checked under SpecHolder)               *)
(***************************************************************************)
\* the holder's content at the end of some frame (or before the first)
PublishedSnapshots == { published[k] : k \in 1..Len(published) }

\* C22: whatever a reader has bound is the content the holder had at the end
\* of one single frame (the image of one frame, the telemetry dict of one
\* frame, the three anomaly fields of one frame), and the telemetry dict a
\* reader was handed still has the content it had when handed over.
C22_WholeSnapshots ==
    /\ rd["mjpeg"].got # NoValue =>
          \E snap \in PublishedSnapshots : snap.jpeg = rd["mjpeg"].got.jpeg
    /\ rd["ws"].got # NoValue =>
          /\ \E snap \in PublishedSnapshots :
                snap.telemetry = rd["ws"].got.telemetry
          /\ rd["ws"].got.telemetry # 0 =>
                /\ heap[rd["ws"].got.telemetry] = rd["ws"].got.seen
                /\ rd["ws"].got.seen.frame = rd["ws"].got.telemetry
    /\ rd["anomaly"].got # NoValue =>
          \E snap \in PublishedSnapshots :
              snap.anomaly = rd["anomaly"].got.anomaly

\* C22 witness: the anomaly reader holds the snapshot of an anomalous frame
\* and the telemetry reader that frame's dict while the worker, inside the
\* lock, has overwritten is_anomaly but not yet anomaly_type for the next
\* frame.
C22_Witness ==
    /\ lock = "worker"
    /\ worker_at = "set_anomaly_type"
    /\ ~latest_anomaly.is_anomaly
    /\ latest_anomaly.anomaly_type = "FAINTING"
    /\ rd["anomaly"].got # NoValue
    /\ rd["anomaly"].got.anomaly.is_anomaly
    /\ rd["ws"].got # NoValue
    /\ rd["ws"].got.telemetry = 1
    /\ state.telemetry = 2

\* C23: whoever holds the lock is inside its with block, about to copy,
\* assign or release, never about to make a call that can block; the lock is
\* free whenever no thread is inside a with block.
C23_LockOnlyForCopy ==
    /\ lock = "worker" =>
          worker_at \in {"set_jpeg", "set_telemetry", "set_is_anomaly",
                         "set_anomaly_type", "set_timestamp", "release"}
    /\ \A r \in Readers :
          /\ lock = r => reader_at(r) \in {"copy", "release"}
          /\ reader_at(r) \in Blocking => lock # r
    /\ worker_at \in Blocking => lock # "worker"
    /\ lock \in {"free", "worker"} \cup Readers

\* C23 witness: a reader is inside its with block, its copy made, while the
\* worker has a frame ready and waits for the lock.
C23_Witness ==
    /\ lock = "ws"
    /\ reader_at("ws") = "release"
    /\ worker_at = "acquire"
    /\ pub.frame = 2
    /\ reader_at("mjpeg") = "send"

C39_AtMostOneWorker ==
    /\ workers <= 1
    /\ workers = 1 => thread_started
    /\ \A h \in Endpoints :
          (ep[h].at = "run" /\ handler_at(h) \in {"set", "start"}
                           /\ ~ep[h].saw) => workers = 0

\* C39 witness: the worker has been started by one endpoint; another
\* handler, suspended since, and a third now running its check have found
\* or will find the flag set.
C39_Witness ==
    /\ workers = 1
    /\ thread_started
    /\ ep["pose_ws"].at = "suspended"
    /\ ep["pose_activate"].at = "run"
    /\ handler_at("pose_activate") = "set"
    /\ ep["pose_activate"].saw
    /\ ep["pose_mjpeg"].at = "ready"

(***************************************************************************)
(* Claims about failures, scoring and shutdown (checked under SpecPipeline)*)
(***************************************************************************)
\* C26 as stated: a detector or scorer that raises during a frame does not
\* end the worker: the frame is skipped and the loop continues.
C26_FailureNotFatal == pc # "dead"

\* C27 as stated: the published is_anomaly is true only while the worker is
\* TRACKING a target; whenever the mode is INACTIVE or no target is held, the
\* published is_anomaly is false.
C27_AnomalyOnlyWhileTracking ==
    (telemetry.published /\ pc \in {"read", "step"}) =>
        (telemetry.is_anomaly =>
            /\ telemetry.tracking_mode = "TRACKING"
            /\ tracking_mode = "TRACKING"
            /\ target_bbox # None)

\* C28: the scorer is called only in an iteration whose buffer.add returned
\* ready, on a window of exactly window_size vectors (the buffer's content);
\* the classifier is called only in an iteration whose scorer call flagged
\* the window as anomalous.
C28_ScoringGated ==
    /\ calls.window # None =>
          /\ calls.ready
          /\ Len(calls.window) = WindowSize
          /\ calls.window = buffer
    /\ calls.classified =>
          /\ calls.window # None
          /\ is_anomaly
          /\ label = StatusAnomaly

\* C28 witness: a full window was scored, flagged and classified.
C28_Witness ==
    /\ pc = "read"
    /\ calls.ready
    /\ calls.classified
    /\ Len(calls.window) = WindowSize
    /\ anomaly_type \in ClassifyOutputs
    /\ tracking_mode = "TRACKING"

\* C34: in every published snapshot, and in the worker's locals the anomaly
\* signal is copied from, is_anomaly is true exactly when anomaly_type is
\* one of the five labels, and anomaly_type is "" exactly when is_anomaly is
\* false.
C34_TypeIffAnomaly ==
    /\ is_anomaly <=> anomaly_type \in ClassifyOutputs
    /\ ~is_anomaly <=> anomaly_type = ""
    /\ telemetry.published =>
          /\ telemetry.is_anomaly <=> telemetry.anomaly_type \in ClassifyOutputs
          /\ ~telemetry.is_anomaly <=> telemetry.anomaly_type = ""

\* C34 witness: a window the classifier could not name is published as an
\* anomaly of type UNKNOWN.
C34_Witness ==
    /\ pc = "read"
    /\ calls.classified
    /\ telemetry.is_anomaly
    /\ telemetry.anomaly_type = "UNKNOWN"
    /\ telemetry.status = StatusAnomaly

\* C29 as stated: the worker stops only at the once-per-iteration check of
\* a stop flag, that is after finishing the frame it is working on.
C29_CooperativeStop ==
    [][(pc # "killed" /\ pc' = "killed") => pc = "read"]_vars

\* C30 as stated: the vector computed in the iteration of a fresh lock-on
\* (the first of a new episode) has zero deltas and is the only content of
\* the buffer, so that no window handed to the scorer holds vectors of an
\* earlier episode or target together with vectors of the current one.
C30_NoMixedWindows ==
    [][MatchIteration =>
          /\ buffer' = <<TRUE>>
          /\ calls'.window # None => calls'.window = <<TRUE>>]_vars

(***************************************************************************)
(* Further claims about classify_anomaly (checked under SpecClassify)      *)
(***************************************************************************)
\* a classifier without the FAINTING branch: UNKNOWN when nothing qualifies,
\* else the qualifying label with the greatest (priority, score) pair
classify_byPriorityOnly(w) ==
    LET m == matches(w)
    IN  IF m = <<>> THEN "UNKNOWN" ELSE MaxKey(Head(m), Tail(m), w)

\* C36: classify_anomaly returns the label that a classifier picking only
\* by the greatest (priority, score) pair among the qualifying labels
\* returns: the FAINTING branch never changes the result.
C36_FaintingBranchRedundant ==
    cls_result # "" => cls_result = classify_byPriorityOnly(window)

\* C36 witness: FAINTING qualifies with two checks of five while SWAYING
\* qualifies with all four of its checks, and FAINTING is returned.
C36_Witness ==
    /\ cls_result = "FAINTING"
    /\ CountTrue(faint_checks(window)) = 2
    /\ CountTrue(sway_checks(window)) = 4

\* C37: knee_buckle and hip_drop are the predicates knees_bent and
\* hip_lowered; a window in which both hold is classified FAINTING, and
\* CROUCHING is returned only when at most one of the two holds.
C37_CrouchNeverWithBoth ==
    /\ faint_checks(window)[4] = crouch_checks(window)[1]
    /\ faint_checks(window)[5] = crouch_checks(window)[2]
    /\ cls_result # "" =>
          /\ (crouch_checks(window)[1] /\ crouch_checks(window)[2])
                => cls_result = "FAINTING"
          /\ cls_result = "CROUCHING"
                => ~(crouch_checks(window)[1] /\ crouch_checks(window)[2])

\* C37 witness: all four CROUCHING checks hold, of the FAINTING checks only
\* the two shared ones, and FAINTING is returned.
C37_Witness ==
    /\ cls_result = "FAINTING"
    /\ CountTrue(crouch_checks(window)) = 4
    /\ CountTrue(faint_checks(window)) = 2
    /\ faint_checks(window)[4]
    /\ faint_checks(window)[5]

\* C31 as stated: in every published snapshot the mode is TRACKING exactly
\* when the worker holds a target box at the end of the iteration, LOCK-ON
\* exactly when it is active without a target box, and INACTIVE exactly when
\* it saw the activate flag cleared.
C31_ModeMatchesTarget ==
    (telemetry.published /\ pc = "read") =>
        /\ telemetry.tracking_mode = tracking_mode
        /\ tracking_mode = "TRACKING" <=> target_bbox # None
        /\ tracking_mode = "LOCK-ON" <=> (is_active /\ target_bbox = None)
        /\ tracking_mode = "INACTIVE" <=> ~is_active

\* C32: the loss counter stays within 0 .. LOST_FRAMES_BEFORE_RELOCK + 1,
\* in the worker and in every published snapshot.
C32_LossCounterBounded ==
    /\ lost_count \in 0..(LOST_FRAMES_BEFORE_RELOCK + 1)
    /\ telemetry.published =>
          telemetry.lost_count \in 0..(LOST_FRAMES_BEFORE_RELOCK + 1)
    /\ target_bbox # None => lost_count <= LOST_FRAMES_BEFORE_RELOCK

\* C32 witness: the counter stands at its maximum after the drop, the
\* controller having been deactivated since.
C32_Witness ==
    /\ pc = "read"
    /\ lost_count = LOST_FRAMES_BEFORE_RELOCK + 1
    /\ telemetry.lost_count = LOST_FRAMES_BEFORE_RELOCK + 1
    /\ tracking_mode = "INACTIVE"
    /\ target_bbox = None

\* C33: the beacon is asked in exactly the iterations that are active and
\* reach the controller without a target box (none held, or the one held
\* cleared by a re-lock request), never in an INACTIVE iteration nor while a
\* target box is tracked; outside the iterations nothing asks it.
C33_BeaconOnlyInLockOn ==
    [][/\ Iteration =>
            (ble_fetched' <=>
                (is_active /\ (request_relock \/ target_bbox = None)))
       /\ (Iteration /\ ~ble_fetched') => ble_devices' = ble_devices
       /\ ~Iteration => UNCHANGED <<ble_fetched, ble_devices, ble_dist>>]_vars

\* C33 witness: an iteration tracking a target through a miss has not asked
\* the beacon, whose last reading is kept.
C33_Witness ==
    /\ pc = "read"
    /\ ~ble_fetched
    /\ tracking_mode = "TRACKING"
    /\ target_bbox # None
    /\ lost_count = 1
    /\ ble_devices # <<>>
    /\ ble_dist = 25

\* C40 as stated: whenever the published tracking mode is INACTIVE, the
\* published status text is "Inactive - press Activate".
C40_InactiveStatus ==
    telemetry.published =>
        (telemetry.tracking_mode = "INACTIVE" =>
            telemetry.status = StatusInactive)

(***************************************************************************)
(* Claims about SequenceBuffer (checked under SpecBuffer)                  *)
(***************************************************************************)
\* number of vectors added since construction or the last reset
AddsSinceReset == Len(sb_added)

\* C17: for every sequence of add calls, the buffer holds
\* min(number of vectors added, window_size) vectors, so once full it holds
\* exactly window_size, and get_window returns the most recently added
\* vectors in insertion order, oldest first and most recent last.
C17_WindowInvariant ==
    /\ Len(sb_buffer) = Min2(AddsSinceReset, sb_window_size)
    /\ LET w == get_window(sb_buffer)
       IN  /\ AddsSinceReset >= sb_window_size => Len(w) = sb_window_size
           /\ \A i \in 1..Len(w) :
                 w[i] = sb_added[AddsSinceReset - Len(w) + i]

\* C17 witness: window_size 2, five vectors added, the window is the last
\* two in order.
C17_Witness ==
    /\ sb_window_size = 2
    /\ sb_added = <<1, 2, 3, 4, 5>>
    /\ get_window(sb_buffer) = <<4, 5>>

\* the first addition that returns ready: the buffer is full and stride
\* additions have been counted
FirstReady == Max2(sb_window_size, sb_stride)

\* C18: for every window_size >= 1 and stride >= 1, the additions that
\* return ready are exactly the addition FirstReady and every stride-th
\* addition after it: two consecutive ready signals are exactly stride
\* additions apart, every other addition returns False, and none is ready
\* before the buffer is full.
C18_ReadyEveryStride ==
    sb_ready <=> /\ AddsSinceReset >= FirstReady
                 /\ (AddsSinceReset - FirstReady) % sb_stride = 0

\* C18 witness: window_size 2, stride 3: the sixth addition is the second
\* ready signal, three additions after the first.
C18_Witness ==
    /\ sb_window_size = 2
    /\ sb_stride = 3
    /\ AddsSinceReset = 6
    /\ sb_ready

\* a reset() call (the only step that empties the history)
ResetCall == sb_added' = <<>>

\* C19: reset() in any state leaves the buffer empty and the stride counter
\* zero, the state of a freshly constructed buffer of the same window_size
\* and stride, and after it add does not return ready before window_size
\* further vectors have been added.
C19_ResetIsFresh ==
    [][/\ ResetCall => /\ sb_buffer' = <<>>
                       /\ sb_since_last' = 0
                       /\ UNCHANGED <<sb_window_size, sb_stride>>
       /\ sb_ready' => Len(sb_added') >= sb_window_size
       /\ Len(sb_buffer') <= Len(sb_added')]_vars

\* C19 witness: window_size 3, stride 1: a reset after a ready signal, two
\* vectors added since, not ready.
C19_Witness ==
    /\ sb_window_size = 3
    /\ sb_stride = 1
    /\ sb_next = 5
    /\ sb_added = <<4, 5>>
    /\ sb_buffer = <<4, 5>>
    /\ ~sb_ready

\* C38 as stated: after construction or reset, add first returns True on
\* exactly the window_size-th addition, for every stride >= 1, stride
\* greater than window_size included.
C38_Original ==
    /\ AddsSinceReset < sb_window_size => ~sb_ready
    /\ AddsSinceReset = sb_window_size => sb_ready

\* C38 amended: after construction or reset, add first returns True on
\* exactly the addition number max(window_size, stride): on the addition
\* that fills the buffer when stride <= window_size, and only on the
\* stride-th addition when stride > window_size.
C38_FirstReadyAtMax ==
    /\ AddsSinceReset < FirstReady => ~sb_ready
    /\ AddsSinceReset = FirstReady => sb_ready
    /\ (sb_stride <= sb_window_size /\ AddsSinceReset = sb_window_size)
          => sb_ready
    /\ (sb_stride > sb_window_size /\ AddsSinceReset = sb_window_size)
          => ~sb_ready

\* C38 witness: window_size 2 and stride 3, after a reset: the third
\* addition is the first to return True, the buffer having been full since
\* the second.
C38_Witness ==
    /\ sb_window_size = 2
    /\ sb_stride = 3
    /\ AddsSinceReset = 3
    /\ sb_next = 5
    /\ sb_ready
    /\ Len(sb_buffer) = 2

(***************************************************************************)
(* Claims about FeatureEngineer (checked under SpecFeature)                *)
(***************************************************************************)
ZeroDeltas(v) == \A j \in Joints : v.delta_xy[j] = <<0, 0>>

\* C20: the first compute after construction or reset() returns all-zero
\* deltas for any input; a second compute on the same input returns the
\* identical vector, again with all-zero deltas; and on every compute that
\* is not the first the deltas are the current normalised coordinates minus
\* those of the immediately preceding compute.
C20_Deltas ==
    [][/\ fe_calls' = 1 => ZeroDeltas(fe_out')
       /\ (fe_calls = 1 /\ fe_calls' = 2 /\ fe_in' = fe_in) =>
            /\ fe_out' = fe_out
            /\ ZeroDeltas(fe_out')
       /\ (fe_calls >= 1 /\ fe_calls' = 2) =>
            \A j \in Joints :
               /\ fe_out'.raw_xy[j]
                    = <<(fe_in'.kps[j][1] * 1000) \div fe_in'.size[1],
                        (fe_in'.kps[j][2] * 1000) \div fe_in'.size[2]>>
               /\ fe_out'.delta_xy[j]
                    = <<fe_out'.raw_xy[j][1] - fe_out.raw_xy[j][1],
                        fe_out'.raw_xy[j][2] - fe_out.raw_xy[j][2]>>]_vars

\* C20 witness: the second compute after a reset, on the input of the
\* first, returned zero deltas for a person not at the origin.
C20_Witness ==
    /\ fe_calls = 2
    /\ fe_in.size = <<640, 480>>
    /\ fe_in.kps["nose"] = <<240, 180>>
    /\ fe_out.raw_xy["nose"] = <<375, 375>>
    /\ ZeroDeltas(fe_out)

====
